---- MODULE Spec2Model ----
(***************************************************************************)
(* Model of the AlloyDB / Cloud SQL vector store of langchaingo: document  *)
(* ingestion, similarity search and the life cycle of the ANN index on the *)
(* embedding column, together with the index-option builders.              *)
(*                                                                         *)
(* The database behind engine.Pool is modelled by what PostgreSQL does     *)
(* with the statements the code sends: CREATE INDEX fails on a name that   *)
(* exists, DROP INDEX IF EXISTS never fails on a missing name, REINDEX     *)
(* fails on a missing name, QueryRow(...).Scan yields pgx.ErrNoRows when   *)
(* the query selects nothing, and a batch is applied whole or not at all.  *)
(* Any call on the pool may also fail for a reason of its own (failAt).    *)
(***************************************************************************)
EXTENDS Integers, Sequences, FiniteSets, TLC

VARIABLES
    indexes,      \* names of the indexes Present on the table (pg_indexes)
    extensions,   \* TRUE once alloydb_scann has been created
    rows,         \* the rows of the table, in insertion order
    nextUUID,     \* number of ids uuid.New() has produced so far
    call,         \* the last operation invoked and its arguments
    stmts,        \* the statements that operation sent to engine.Pool
    ret,          \* what that operation returned
    search,       \* concurrent calls of SimilaritySearch and the memory they share
    chat,         \* the rows of the chat message table, in the order of their ids
    loads         \* the DocumentLoader, the table it reads and the Load calls in progress

vars == <<indexes, extensions, rows, nextUUID, call, stmts, ret, search, chat, loads>>

(***************************************************************************)
(* Bounds of the model.                                                    *)
(***************************************************************************)
MaxDocs == 2
MaxRows == 2
MaxUUID == 3
MaxFail == 3
MaxCalls == 2
MaxSpare == 4
MaxMessages == 2
MaxBatch == 2

(***************************************************************************)
(* Configuration of the one VectorStore of the model.                      *)
(***************************************************************************)
tableName == "t"
defaultSchemaName == "public"
defaultIDColumn == "langchain_id"
defaultContentColumn == "content"
defaultEmbeddingColumn == "embedding"
defaultMetadataJsonColumn == "langchain_metadata"
defaultIndexNameSuffix == "langchainvectorindex"
metadataColumns == <<"region">>
defaultK == 4
defaultDistanceStrategy == "cosineDistance"

vs == [tableName          |-> tableName,
       schemaName         |-> defaultSchemaName,
       idColumn           |-> defaultIDColumn,
       contentColumn      |-> defaultContentColumn,
       embeddingColumn    |-> defaultEmbeddingColumn,
       metadataJsonColumn |-> defaultMetadataJsonColumn,
       metadataColumns    |-> metadataColumns,
       k                  |-> defaultK,
       distanceStrategy   |-> defaultDistanceStrategy]

(***************************************************************************)
(* Errors are chains of messages, outermost first; nil is the empty chain. *)
(***************************************************************************)
NoError == <<>>
Wrap(msg, cause) == <<msg>> \o cause
ErrConn == <<"connection failure">>
ErrDuplicate == <<"relation already exists (SQLSTATE 42P07)">>
ErrUndefined == <<"index does not exist (SQLSTATE 42704)">>
ErrNoRows == <<"no rows in result set">>

(***************************************************************************)
(* strconv.Itoa and the joins used to build statements.                    *)
(***************************************************************************)
Digits == <<"0", "1", "2", "3", "4", "5", "6", "7", "8", "9">>

RECURSIVE ItoaNat(_)
ItoaNat(n) == IF n < 10 THEN Digits[n + 1]
              ELSE ItoaNat(n \div 10) \o Digits[(n % 10) + 1]

Itoa(n) == IF n < 0 THEN "-" \o ItoaNat(0 - n) ELSE ItoaNat(n)

RECURSIVE Join(_, _)
Join(strs, sep) ==
    IF Len(strs) = 0 THEN ""
    ELSE IF Len(strs) = 1 THEN strs[1]
    ELSE strs[1] \o sep \o Join(Tail(strs), sep)

\* fmt's %s of a []string: the elements between brackets, separated by spaces
SprintStrings(strs) == "[" \o Join(strs, " ") \o "]"

(***************************************************************************)
(* Distance strategies.                                                    *)
(***************************************************************************)
DistanceStrategies == {"euclidean", "cosineDistance", "innerProduct"}

\* an operator() that answers "<->" for two of the variants
operatorShared(ds) ==
    CASE ds = "euclidean"      -> "<->"
      [] ds = "cosineDistance" -> "<->"
      [] ds = "innerProduct"   -> "<#>"

operator(ds) ==
    CASE ds = "euclidean"      -> "<->"
      [] ds = "cosineDistance" -> "<=>"
      [] ds = "innerProduct"   -> "<#>"

searchFunction(ds) ==
    CASE ds = "euclidean"      -> "vector_l2_ops"
      [] ds = "cosineDistance" -> "vector_cosine_ops"
      [] ds = "innerProduct"   -> "vector_ip_ops"

\* searchFunction of the revision in which distanceStrategy is an int
searchFunctionEnum(ds) ==
    CASE ds = "euclidean"      -> "l2_distance"
      [] ds = "cosineDistance" -> "cosine_distance"
      [] ds = "innerProduct"   -> "inner_product"

(***************************************************************************)
(* Index types and the three revisions of BaseIndex.indexOptions.          *)
(***************************************************************************)
IndexTypes == {"hnsw", "ivfflat", "ivf", "ScaNN", "exactnearestneighbor", "brin"}

\* a builder that ignores the tuning values it is given
indexOptionsIgnoring(index, indexOpts) ==
    CASE index.indexType = "hnsw"    -> "(m = 16, ef_construction = 64)"
      [] index.indexType = "ivfflat" -> "(lists = 100)"
      [] index.indexType = "ivf"     -> "(lists = 100, quantizer = sq8)"
      [] index.indexType = "ScaNN"   -> "(num_leaves = 5, quantizer = sq8)"
      [] OTHER -> ""

\* revision taking positional tuning values (indexOpts ...int)
indexOptions(index, indexOpts) ==
    CASE index.indexType = "hnsw" ->
           LET m  == IF Len(indexOpts) = 2 THEN indexOpts[1] ELSE 16
               ef == IF Len(indexOpts) = 2 THEN indexOpts[2] ELSE 64
           IN "(m = " \o Itoa(m) \o ", ef_construction = " \o Itoa(ef) \o ")"
      [] index.indexType = "ivfflat" ->
           LET lists == IF Len(indexOpts) = 1 THEN indexOpts[1] ELSE 100
           IN "(lists = " \o Itoa(lists) \o ")"
      [] index.indexType = "ivf" ->
           LET lists == IF Len(indexOpts) = 1 THEN indexOpts[1] ELSE 100
           IN "(lists = " \o Itoa(lists) \o ", quantizer = sq8)"
      [] index.indexType = "ScaNN" ->
           LET numLeaves == IF Len(indexOpts) = 1 THEN indexOpts[1] ELSE 5
           IN "(num_leaves = " \o Itoa(numLeaves) \o ", quantizer = sq8)"
      [] OTHER -> ""

\* revision with a typed options value; a failed type assertion is an error
indexOptionsTyped(indexType, options) ==
    CASE indexType = "hnsw" ->
           IF options.type = "hnswOptions"
           THEN [clause |-> "(m = " \o Itoa(options.m) \o ", ef_construction = "
                               \o Itoa(options.efConstruction) \o ")",
                 err |-> NoError]
           ELSE [clause |-> "", err |-> <<"invalid HNSW options">>]
      [] indexType = "ivfflat" ->
           IF options.type = "ivfflatOptions"
           THEN [clause |-> "(lists = " \o Itoa(options.lists) \o ")",
                 err |-> NoError]
           ELSE [clause |-> "", err |-> <<"invalid IVFFlat options">>]
      [] indexType = "ivf" ->
           IF options.type = "ivfOptions"
           THEN [clause |-> "(lists = " \o Itoa(options.lists) \o ", quantizer = "
                               \o options.quantizer \o ")",
                 err |-> NoError]
           ELSE [clause |-> "", err |-> <<"invalid IVF options">>]
      [] indexType = "ScaNN" ->
           IF options.type = "scannOptions"
           THEN [clause |-> "(num_leaves = " \o Itoa(options.numLeaves)
                               \o ", quantizer = " \o options.quantizer \o ")",
                 err |-> NoError]
           ELSE [clause |-> "", err |-> <<"invalid ScaNN options">>]
      [] OTHER -> [clause |-> "", err |-> <<"invalid index options of type">>]

\* revision without tuning values
indexOptionsFixed(indexType) ==
    CASE indexType = "hnsw"    -> "(m = 16, ef_construction = 64)"
      [] indexType = "ivfflat" -> "(lists = 100)"
      [] indexType = "ivf"     -> "(lists = 100, quantizer = sq8)"
      [] indexType = "ScaNN"   -> "(num_leaves = 5, quantizer = sq8)"
      [] OTHER -> ""

(***************************************************************************)
(* The database behind engine.Pool.  db is [indexes, extensions]; fail     *)
(* says that this call fails for a reason of its own.                      *)
(***************************************************************************)
ErrSyntax == <<"syntax error (SQLSTATE 42601)">>

\* a database whose DROP INDEX has no IF EXISTS: dropping a missing index
\* is an error
ExecDropStrict(db, stmt, fail) ==
    IF fail THEN [db |-> db, err |-> ErrConn]
    ELSE CASE stmt.kind = "CREATE EXTENSION" ->
                [db |-> [db EXCEPT !.extensions = TRUE], err |-> NoError]
           [] stmt.kind = "CREATE INDEX" ->
                IF stmt.with = "WITH " THEN [db |-> db, err |-> ErrSyntax]
                ELSE IF stmt.name \in db.indexes
                     THEN [db |-> db, err |-> ErrDuplicate]
                     ELSE [db |-> [db EXCEPT !.indexes = @ \cup {stmt.name}],
                           err |-> NoError]
           [] stmt.kind = "DROP INDEX" ->
                IF stmt.name \in db.indexes
                THEN [db |-> [db EXCEPT !.indexes = @ \ {stmt.name}],
                      err |-> NoError]
                ELSE [db |-> db, err |-> ErrUndefined]
           [] stmt.kind = "REINDEX" ->
                IF stmt.name \in db.indexes
                THEN [db |-> db, err |-> NoError]
                ELSE [db |-> db, err |-> ErrUndefined]
           [] OTHER -> [db |-> db, err |-> NoError]

Exec(db, stmt, fail) ==
    IF fail THEN [db |-> db, err |-> ErrConn]
    ELSE CASE stmt.kind = "CREATE EXTENSION" ->
                [db |-> [db EXCEPT !.extensions = TRUE], err |-> NoError]
           [] stmt.kind = "CREATE INDEX" ->
                IF stmt.with = "WITH " THEN [db |-> db, err |-> ErrSyntax]
                ELSE IF stmt.name \in db.indexes
                     THEN [db |-> db, err |-> ErrDuplicate]
                     ELSE [db |-> [db EXCEPT !.indexes = @ \cup {stmt.name}],
                           err |-> NoError]
           [] stmt.kind = "DROP INDEX" ->
                [db |-> [db EXCEPT !.indexes = @ \ {stmt.name}], err |-> NoError]
           [] stmt.kind = "REINDEX" ->
                IF stmt.name \in db.indexes
                THEN [db |-> db, err |-> NoError]
                ELSE [db |-> db, err |-> ErrUndefined]
           [] OTHER -> [db |-> db, err |-> NoError]

\* QueryRow(...).Scan(&tablename, &indexname) on pg_indexes
QueryRowScan(db, indexName, fail) ==
    IF fail THEN [indexname |-> "", err |-> ErrConn]
    ELSE IF indexName \in db.indexes
         THEN [indexname |-> indexName, err |-> NoError]
         ELSE [indexname |-> "", err |-> ErrNoRows]

(***************************************************************************)
(* Index life cycle of VectorStore.  Each operator returns the database    *)
(* after the call, the statements sent and the error returned.             *)
(***************************************************************************)
DefaultIndexName == vs.tableName \o defaultIndexNameSuffix

\* a DropVectorIndex that does not look at overwrite
DropVectorIndexAlways(db, indexName, overwrite, failAt) ==
    LET name == IF indexName = "" THEN DefaultIndexName ELSE indexName
        stmt == [kind |-> "DROP INDEX", name |-> name,
                 sql |-> "DROP INDEX IF EXISTS " \o name \o ";"]
        r    == Exec(db, stmt, failAt = 1)
    IN [db |-> r.db, stmts |-> <<stmt>>,
        err |-> IF r.err # NoError
                THEN Wrap("failed to drop vector index", r.err)
                ELSE NoError]

DropVectorIndex(db, indexName, overwrite, failAt) ==
    IF ~overwrite THEN [db |-> db, stmts |-> <<>>, err |-> NoError]
    ELSE LET name == IF indexName = "" THEN DefaultIndexName ELSE indexName
             stmt == [kind |-> "DROP INDEX", name |-> name,
                      sql |-> "DROP INDEX IF EXISTS " \o name \o ";"]
             r    == Exec(db, stmt, failAt = 1)
         IN [db |-> r.db, stmts |-> <<stmt>>,
             err |-> IF r.err # NoError
                     THEN Wrap("failed to drop vector index", r.err)
                     ELSE NoError]

\* an index name that does not fall back on the name of the index value
ApplyIndexNameNoFallback(index, name) ==
    IF name = "" THEN DefaultIndexName ELSE name

ApplyIndexName(index, name) ==
    IF name = ""
    THEN IF index.name = "" THEN DefaultIndexName ELSE index.name
    ELSE name

CreateIndexStmt(index, name, concurrently, indexOpts) ==
    LET function == searchFunction(index.distanceStrategy)
        filter == IF Len(index.partialIndexes) > 0
                  THEN "WHERE " \o SprintStrings(index.partialIndexes)
                  ELSE ""
        params == "WITH " \o indexOptions(index, indexOpts)
        idxName == ApplyIndexName(index, name)
        concurrentlyStr == IF concurrently THEN "CONCURRENTLY" ELSE ""
    IN [kind |-> "CREATE INDEX", name |-> idxName, with |-> params,
        sql |-> "CREATE INDEX " \o concurrentlyStr \o " " \o idxName \o " ON "
                  \o vs.schemaName \o "." \o vs.tableName \o " USING "
                  \o index.indexType \o " (" \o vs.embeddingColumn \o " "
                  \o function \o ") " \o params \o " " \o filter]

ExtensionStmt == [kind |-> "CREATE EXTENSION", name |-> "alloydb_scann",
                  sql |-> "CREATE EXTENSION IF NOT EXISTS alloydb_scann"]

CommitStmt == [kind |-> "COMMIT", name |-> "", sql |-> "COMMIT"]

\* a creation that goes on to CREATE INDEX after a failed extension step
CreateVectorIndexDespiteExtension(db, index, name, concurrently, indexOpts, failAt, swallow) ==
    LET scann == index.indexType = "ScaNN"
        s1 == IF scann THEN <<ExtensionStmt>> ELSE <<>>
        r1 == IF scann THEN Exec(db, ExtensionStmt, failAt = 1)
                       ELSE [db |-> db, err |-> NoError]
        create == CreateIndexStmt(index, name, concurrently, indexOpts)
        s2 == Append(s1, create)
        r2 == Exec(r1.db, create, failAt = Len(s2))
    IN IF r2.err # NoError
       THEN [db |-> r2.db, stmts |-> s2,
             err |-> Wrap("failed to execute creation of index", r2.err)]
       ELSE [db |-> r2.db, stmts |-> Append(s2, CommitStmt), err |-> r1.err]

\* the part of ApplyVectorIndex that creates the index
CreateVectorIndexWith(db, index, name, concurrently, indexOpts, failAt, swallow) ==
    LET scann == index.indexType = "ScaNN"
        s1 == IF scann THEN <<ExtensionStmt>> ELSE <<>>
        r1 == IF scann THEN Exec(db, ExtensionStmt, failAt = 1)
                       ELSE [db |-> db, err |-> NoError]
    IN IF r1.err # NoError
       THEN [db |-> r1.db, stmts |-> s1,
             err |-> Wrap("failed to create alloydb scann extension", r1.err)]
       ELSE
       LET create == CreateIndexStmt(index, name, concurrently, indexOpts)
           s2 == Append(s1, create)
           r2 == Exec(r1.db, create, failAt = Len(s2))
       IN IF r2.err # NoError /\ ~swallow
          THEN [db |-> r2.db, stmts |-> s2,
                err |-> Wrap("failed to execute creation of index", r2.err)]
          ELSE
          LET s3 == Append(s2, CommitStmt)
              r3 == Exec(r2.db, CommitStmt, failAt = Len(s3))
          IN [db |-> r3.db, stmts |-> s3,
              err |-> IF r3.err # NoError
                      THEN Wrap("failed to commit index", r3.err)
                      ELSE NoError]

\* a creation that drops the error of the CREATE INDEX statement
CreateVectorIndexSwallow(db, index, name, concurrently, indexOpts, failAt) ==
    CreateVectorIndexWith(db, index, name, concurrently, indexOpts, failAt, TRUE)

CreateVectorIndex(db, index, name, concurrently, indexOpts, failAt) ==
    CreateVectorIndexWith(db, index, name, concurrently, indexOpts, failAt, FALSE)

\* an ApplyVectorIndex without the case of exactnearestneighbor
ApplyVectorIndexCreateOnly(db, index, name, concurrently, overwrite, indexOpts, failAt) ==
    CreateVectorIndex(db, index, name, concurrently, indexOpts, failAt)

ApplyVectorIndex(db, index, name, concurrently, overwrite, indexOpts, failAt) ==
    IF index.indexType = "exactnearestneighbor"
    THEN DropVectorIndex(db, name, overwrite, failAt)
    ELSE CreateVectorIndex(db, index, name, concurrently, indexOpts, failAt)

ReIndex(db, indexName, failAt) ==
    LET name == IF indexName = "" THEN DefaultIndexName ELSE indexName
        stmt == [kind |-> "REINDEX", name |-> name,
                 sql |-> "REINDEX INDEX " \o name \o ";"]
        r    == Exec(db, stmt, failAt = 1)
    IN [db |-> r.db, stmts |-> <<stmt>>,
        err |-> IF r.err # NoError THEN Wrap("failed to reindex", r.err)
                ELSE NoError]

IsValidIndex(db, indexName, failAt) ==
    LET name == IF indexName = "" THEN DefaultIndexName ELSE indexName
        stmt == [kind |-> "SELECT pg_indexes", name |-> name,
                 sql |-> "SELECT tablename, indexname  FROM pg_indexes WHERE tablename = '"
                           \o vs.tableName \o "' AND schemaname = '" \o vs.schemaName
                           \o "' AND indexname = '" \o name \o "';"]
        r    == QueryRowScan(db, name, failAt = 1)
    IN IF r.err # NoError
       THEN [db |-> db, stmts |-> <<stmt>>, valid |-> FALSE,
             err |-> Wrap("failed to check if index exists", r.err)]
       ELSE [db |-> db, stmts |-> <<stmt>>, valid |-> (r.indexname = name),
             err |-> NoError]

(***************************************************************************)
(* Inputs of the index operations.                                         *)
(***************************************************************************)
NameArgs == {"", "idx_a"}

NewBaseIndex(indexName, indexType, strategy, partialIndexes) ==
    [name |-> indexName, indexType |-> indexType,
     distanceStrategy |-> strategy, partialIndexes |-> partialIndexes]

BaseIndexes ==
    { NewBaseIndex(n, t, "cosineDistance", <<>>) : n \in NameArgs, t \in IndexTypes }
    \cup { NewBaseIndex("", "hnsw", ds, <<"region = 'us'">>) : ds \in DistanceStrategies }

IndexOptsArgs == {<<>>, <<200>>, <<8, 32>>}

DB == [indexes |-> indexes, extensions |-> extensions]

\* inputs of the index-option builders
TuningValues == {8, 32, 200}

RECURSIVE IntSeqsUpTo(_, _)
IntSeqsUpTo(S, n) ==
    IF n = 0 THEN {<<>>}
    ELSE LET shorter == IntSeqsUpTo(S, n - 1)
         IN shorter \cup {Append(q, x) : q \in shorter, x \in S}

PositionalOptions == IntSeqsUpTo(TuningValues, 2)

hnswOptions(m, efConstruction) ==
    [type |-> "hnswOptions", m |-> m, efConstruction |-> efConstruction]
ivfflatOptions(lists) == [type |-> "ivfflatOptions", lists |-> lists]
ivfOptions(lists, quantizer) ==
    [type |-> "ivfOptions", lists |-> lists, quantizer |-> quantizer]
scannOptions(numLeaves, quantizer) ==
    [type |-> "scannOptions", numLeaves |-> numLeaves, quantizer |-> quantizer]

TypedOptions ==
    {hnswOptions(16, 64), hnswOptions(8, 32), hnswOptions(0, 0)}
    \cup {ivfflatOptions(100), ivfflatOptions(200)}
    \cup {ivfOptions(100, "sq8"), scannOptions(5, "sq8"), [type |-> "nil"]}

(***************************************************************************)
(* Go values carry their dynamic type.  A metadata map is [nil, kv]: nil   *)
(* says that the map is the nil map, kv is the function from keys to       *)
(* values.                                                                 *)
(***************************************************************************)
GoString(v) == [t |-> "string", s |-> v]
GoInt(v) == [t |-> "int", n |-> v]
GoFloat64(v) == [t |-> "float64", n |-> v]
GoFloat32(v) == [t |-> "float32", n |-> v]
GoBytes(v) == [t |-> "[]byte", b |-> v]
GoChan == [t |-> "chan"]
GoNil == [t |-> "nil"]

EmptyMap == [x \in {} |-> GoNil]
NilMetadata == [nil |-> TRUE, kv |-> EmptyMap]
Map(kv) == [nil |-> FALSE, kv |-> kv]

MapDelete(kv, key) == [x \in (DOMAIN kv) \ {key} |-> kv[x]]
MapSet(kv, key, val) ==
    [x \in (DOMAIN kv) \cup {key} |-> IF x = key THEN val ELSE kv[x]]

\* the keys a metadata map of the model can have, in the order encoding/json
\* writes them (sorted)
KeyOrder == <<"id", "n", "region">>

InMap(kv) == LET Test(key) == key \in DOMAIN kv IN SelectSeq(KeyOrder, Test)

(***************************************************************************)
(* encoding/json.  A JSON object is the sequence of its members in key     *)
(* order; Go ints and floats both become JSON numbers, and a JSON number   *)
(* decodes into an any as float64.  A channel cannot be encoded.           *)
(***************************************************************************)
JSONValue(val) ==
    CASE val.t = "string"  -> [j |-> "string", s |-> val.s]
      [] val.t = "int"     -> [j |-> "number", n |-> val.n]
      [] val.t = "float64" -> [j |-> "number", n |-> val.n]
      [] val.t = "nil"     -> [j |-> "null"]

JSONMarshal(kv) ==
    IF \E key \in DOMAIN kv : kv[key].t = "chan"
    THEN [json |-> <<>>, err |-> <<"json: unsupported type: chan int">>]
    ELSE LET keys == InMap(kv)
         IN [json |-> [i \in 1..Len(keys) |->
                          [key |-> keys[i], val |-> JSONValue(kv[keys[i]])]],
             err |-> NoError]

GoValue(jv) ==
    CASE jv.j = "string" -> GoString(jv.s)
      [] jv.j = "number" -> GoFloat64(jv.n)
      [] jv.j = "null"   -> GoNil

\* bytes that are not the text of a JSON object: an object cut short after
\* the name of its first member
MalformedJSON == <<[key |-> "region", val |-> [j |-> "truncated"]]>>

\* json.Unmarshal returns an error on such bytes
ValidJSON(json) == \A i \in 1..Len(json) : json[i].val.j \in {"string", "number", "null"}

\* json.Unmarshal(jsonBytes, &metadata) into an empty map
JSONUnmarshal(json) ==
    [key \in {json[i].key : i \in 1..Len(json)} |->
        GoValue(json[CHOOSE i \in 1..Len(json) : json[i].key = key].val)]

(***************************************************************************)
(* The embedder and uuid.New.  A vector has one component with an integral *)
(* value, so strconv.FormatFloat(v, 'f', -1, 32) writes it as Itoa does.   *)
(***************************************************************************)
Embed(text) == IF text = "hello" THEN <<1>> ELSE <<2>>

\* EmbedDocuments returning numVectors vectors for the texts
EmbedDocuments(texts, numVectors) ==
    [i \in 1..numVectors |-> IF i <= Len(texts) THEN Embed(texts[i]) ELSE <<0>>]

vectorToString(vec) ==
    "[" \o Join([i \in 1..Len(vec) |-> Itoa(vec[i])], ",") \o "]"

UUID(n) == "uuid-" \o Itoa(n)

(***************************************************************************)
(* VectorStore.AddDocuments.                                               *)
(***************************************************************************)
HasStringID(doc) ==
    /\ "id" \in DOMAIN doc.Metadata.kv
    /\ doc.Metadata.kv["id"].t = "string"

\* number of ids uuid.New() produces for docs[1..n]
Generated(docs, n) == Cardinality({i \in 1..n : ~HasStringID(docs[i])})

ResolveIDs(docs, next) ==
    [i \in 1..Len(docs) |->
        IF HasStringID(docs[i]) THEN docs[i].Metadata.kv["id"].s
        ELSE UUID(next + Generated(docs, i))]

Param(n) == [text |-> "$" \o Itoa(n), param |-> n]
NullExpr == [text |-> "NULL", param |-> 0]

\* a loop over vs.metadataColumns that binds no value: every column is NULL
RECURSIVE AddMetadataColumnsNull(_, _)
AddMetadataColumnsNull(cols, acc) ==
    IF cols = <<>> THEN acc
    ELSE AddMetadataColumnsNull(Tail(cols),
            [exprs  |-> Append(acc.exprs, NullExpr),
             values |-> acc.values,
             kv     |-> MapDelete(acc.kv, Head(cols))])

\* the loop over vs.metadataColumns; acc is [exprs, values, kv]
RECURSIVE AddMetadataColumns(_, _)
AddMetadataColumns(cols, acc) ==
    IF cols = <<>> THEN acc
    ELSE LET col == Head(cols)
         IN AddMetadataColumns(Tail(cols),
              IF col \in DOMAIN acc.kv
              THEN [exprs  |-> Append(acc.exprs, Param(Len(acc.values) + 1)),
                    values |-> Append(acc.values, acc.kv[col]),
                    kv     |-> MapDelete(acc.kv, col)]
              ELSE [acc EXCEPT !.exprs = Append(@, NullExpr)])

ExprTexts(exprs) == [i \in 1..Len(exprs) |-> exprs[i].text]

\* one iteration of the loop that queues the INSERT of a document
InsertStmt(id, content, embedding, kv, src) ==
    LET jsonCol == vs.metadataJsonColumn # ""
        metadataColNames ==
            (IF Len(vs.metadataColumns) > 0
             THEN ", " \o Join(vs.metadataColumns, ", ") ELSE "")
            \o (IF jsonCol THEN ", " \o vs.metadataJsonColumn ELSE "")
        columns == <<vs.idColumn, vs.contentColumn, vs.embeddingColumn>>
                   \o vs.metadataColumns
                   \o (IF jsonCol THEN <<vs.metadataJsonColumn>> ELSE <<>>)
        insertStmt == "INSERT INTO \"" \o vs.schemaName \o "\".\"" \o vs.tableName
                      \o "\" (" \o vs.idColumn \o ", " \o vs.contentColumn \o ", "
                      \o vs.embeddingColumn \o metadataColNames \o ")"
        a == AddMetadataColumns(vs.metadataColumns,
                 [exprs  |-> <<Param(1), Param(2), Param(3)>>,
                  values |-> <<GoString(id), GoString(content), GoString(embedding)>>,
                  kv     |-> kv])
        m == JSONMarshal(a.kv)
        exprs  == IF jsonCol THEN Append(a.exprs, Param(Len(a.values) + 1))
                  ELSE a.exprs
        values == IF jsonCol THEN Append(a.values, GoBytes(m.json)) ELSE a.values
    IN [kv   |-> a.kv,
        err  |-> IF jsonCol /\ m.err # NoError
                 THEN Wrap("failed to transform metadata to json", m.err)
                 ELSE NoError,
        stmt |-> [kind |-> "INSERT", name |-> vs.tableName, columns |-> columns,
                  exprs |-> exprs, values |-> values, src |-> src,
                  sql |-> insertStmt \o "VALUES (" \o Join(ExprTexts(exprs), ", ")
                            \o ")"]]

\* the loop over the texts from document i on; acc is [kvs, batch, err, panic]
RECURSIVE QueueInserts(_, _, _, _, _)
QueueInserts(i, docs, embeddings, ids, acc) ==
    IF i > Len(docs) THEN acc
    ELSE IF i > Len(embeddings) THEN [acc EXCEPT !.panic = TRUE]
    ELSE LET r == InsertStmt(ids[i], docs[i].PageContent,
                             vectorToString(embeddings[i]), acc.kvs[i], docs[i])
             kvs == [acc.kvs EXCEPT ![i] = r.kv]
         IN IF r.err # NoError
            THEN [acc EXCEPT !.kvs = kvs, !.err = r.err]
            ELSE QueueInserts(i + 1, docs, embeddings, ids,
                              [acc EXCEPT !.kvs = kvs,
                                          !.batch = Append(@, r.stmt)])

\* the documents of the caller once their maps have been worked on
WithMetadata(docs, kvs) ==
    [i \in 1..Len(docs) |->
        [docs[i] EXCEPT !.Metadata = IF docs[i].Metadata.nil THEN NilMetadata
                                     ELSE Map(kvs[i])]]

\* the row an INSERT writes: one value per named column
RowOf(stmt) ==
    [cols |-> [c \in {stmt.columns[j] : j \in 1..Len(stmt.columns)} |->
                  LET e == stmt.exprs[CHOOSE j \in 1..Len(stmt.columns) :
                                          stmt.columns[j] = c]
                  IN IF e.param = 0 THEN GoNil ELSE stmt.values[e.param]],
     src  |-> stmt.src]

WellFormedInsert(stmt) ==
    /\ Len(stmt.columns) = Len(stmt.exprs)
    /\ \A j \in 1..Len(stmt.exprs) : stmt.exprs[j].param <= Len(stmt.values)

\* Pool.SendBatch(ctx, b) followed by Close: the batch is applied whole
SendBatch(table, batch, fail) ==
    IF fail THEN [rows |-> table, err |-> ErrConn]
    ELSE IF \E j \in 1..Len(batch) : ~WellFormedInsert(batch[j])
         THEN [rows |-> table, err |-> ErrSyntax]
         ELSE [rows |-> table \o [j \in 1..Len(batch) |-> RowOf(batch[j])],
               err |-> NoError]

\* the end of AddDocuments, from the batch q that the loop has queued:
\* SendBatch, Close and the return
SendQueued(table, next, docs, ids, q, failAt) ==
    LET after == WithMetadata(docs, q.kvs)
    IN IF q.panic
       THEN [rows |-> table, next |-> next, stmts |-> <<>>, ids |-> <<>>,
             docs |-> after, panic |-> TRUE, err |-> NoError]
       ELSE IF q.err # NoError
       THEN [rows |-> table, next |-> next, stmts |-> <<>>, ids |-> <<>>,
             docs |-> after, panic |-> FALSE, err |-> q.err]
       ELSE IF SendBatch(table, q.batch, failAt = 1).err # NoError
       THEN [rows |-> table, next |-> next, stmts |-> q.batch,
             ids |-> <<>>, docs |-> after, panic |-> FALSE,
             err |-> Wrap("failed to execute batch",
                          SendBatch(table, q.batch, failAt = 1).err)]
       ELSE [rows |-> SendBatch(table, q.batch, failAt = 1).rows,
             next |-> next, stmts |-> q.batch,
             ids |-> ids, docs |-> after, panic |-> FALSE,
             err |-> NoError]

AddDocuments(table, next, docs, embedErr, numVectors, failAt) ==
    IF embedErr
    THEN [rows |-> table, next |-> next, stmts |-> <<>>, ids |-> <<>>,
          docs |-> docs, panic |-> FALSE,
          err |-> Wrap("failed embed documents", <<"embedder failure">>)]
    ELSE SendQueued(table, next + Generated(docs, Len(docs)), docs,
                    ResolveIDs(docs, next),
                    QueueInserts(1, docs,
                        EmbedDocuments([i \in 1..Len(docs) |-> docs[i].PageContent],
                                       numVectors),
                        ResolveIDs(docs, next),
                        [kvs   |-> [i \in 1..Len(docs) |-> docs[i].Metadata.kv],
                         batch |-> <<>>, err |-> NoError, panic |-> FALSE]),
                    failAt)

(***************************************************************************)
(* The earlier revision of VectorStore.AddDocuments: every id is a new     *)
(* UUID, the maps of the documents are used as they are, the JSON column   *)
(* is not among the named columns, and its placeholder is the text "$%d".  *)
(* jsonColumn is vs.metadataJsonColumn of the store of the call: the       *)
(* default, or "" after WithMetadataJsonColumn("").                        *)
(***************************************************************************)
InsertStmtEarly(jsonColumn, id, content, embedding, meta, src) ==
    LET jsonCol == jsonColumn # ""
        metadataColNames ==
            IF Len(vs.metadataColumns) > 0
            THEN ", " \o Join(vs.metadataColumns, ", ") ELSE ""
        columns == <<vs.idColumn, vs.contentColumn, vs.embeddingColumn>>
                   \o vs.metadataColumns
        insertStmt == "INSERT INTO \"" \o vs.schemaName \o "\".\"" \o vs.tableName
                      \o "\" (" \o vs.idColumn \o ", " \o vs.contentColumn \o ", "
                      \o vs.embeddingColumn \o metadataColNames \o ")"
        a == AddMetadataColumns(vs.metadataColumns,
                 [exprs  |-> <<Param(1), Param(2), Param(3)>>,
                  values |-> <<GoString(id), GoString(content), embedding>>,
                  kv     |-> meta.kv])
        m == IF meta.nil THEN [json |-> "null", err |-> NoError]
             ELSE JSONMarshal(a.kv)
        exprs  == IF jsonCol THEN Append(a.exprs, [text |-> "$%d", param |-> -1])
                  ELSE a.exprs
        values == IF jsonCol THEN Append(a.values, GoBytes(m.json)) ELSE a.values
    IN [kv   |-> a.kv,
        err  |-> IF jsonCol /\ m.err # NoError
                 THEN Wrap("failed to transform metadata to json", m.err)
                 ELSE NoError,
        stmt |-> [kind |-> "INSERT", name |-> vs.tableName, columns |-> columns,
                  exprs |-> exprs, values |-> values, src |-> src,
                  sql |-> insertStmt \o "VALUES (" \o Join(ExprTexts(exprs), ", ")
                            \o ")"]]

RECURSIVE QueueInsertsEarly(_, _, _, _, _, _)
QueueInsertsEarly(jsonColumn, i, docs, embeddings, ids, acc) ==
    IF i > Len(docs) THEN acc
    ELSE IF i > Len(embeddings) THEN [acc EXCEPT !.panic = TRUE]
    ELSE LET r == InsertStmtEarly(jsonColumn, ids[i], docs[i].PageContent,
                                  [t |-> "[]float32", f |-> embeddings[i]],
                                  [docs[i].Metadata EXCEPT !.kv = acc.kvs[i]],
                                  docs[i])
             kvs == [acc.kvs EXCEPT ![i] = r.kv]
         IN IF r.err # NoError
            THEN [acc EXCEPT !.kvs = kvs, !.err = r.err]
            ELSE QueueInsertsEarly(jsonColumn, i + 1, docs, embeddings, ids,
                                   [acc EXCEPT !.kvs = kvs,
                                               !.batch = Append(@, r.stmt)])

\* the end of the earlier AddDocuments: the ids go back together with
\* whatever SendBatch(...).Close() returns
SendQueuedEarly(table, next, docs, ids, q, failAt) ==
    LET after == WithMetadata(docs, q.kvs)
    IN IF q.panic
       THEN [rows |-> table, next |-> next, stmts |-> <<>>, ids |-> <<>>,
             docs |-> after, panic |-> TRUE, err |-> NoError]
       ELSE IF q.err # NoError
       THEN [rows |-> table, next |-> next, stmts |-> <<>>, ids |-> <<>>,
             docs |-> after, panic |-> FALSE, err |-> q.err]
       ELSE [rows |-> SendBatch(table, q.batch, failAt = 1).rows,
             next |-> next, stmts |-> q.batch,
             ids |-> ids, docs |-> after, panic |-> FALSE,
             err |-> SendBatch(table, q.batch, failAt = 1).err]

AddDocumentsEarly(jsonColumn, table, next, docs, embedErr, numVectors, failAt) ==
    IF embedErr
    THEN [rows |-> table, next |-> next, stmts |-> <<>>, ids |-> <<>>,
          docs |-> docs, panic |-> FALSE,
          err |-> Wrap("failed embed documents", <<"embedder failure">>)]
    ELSE SendQueuedEarly(table, next + Len(docs), docs,
                         [i \in 1..Len(docs) |-> UUID(next + i)],
                         QueueInsertsEarly(jsonColumn, 1, docs,
                             EmbedDocuments(
                                 [i \in 1..Len(docs) |-> docs[i].PageContent],
                                 numVectors),
                             [i \in 1..Len(docs) |-> UUID(next + i)],
                             [kvs   |-> [i \in 1..Len(docs) |->
                                            docs[i].Metadata.kv],
                              batch |-> <<>>, err |-> NoError, panic |-> FALSE]),
                         failAt)

(***************************************************************************)
(* VectorStore.SimilaritySearch.  The pool answers the query with the rows *)
(* of the table that pass the filter, nearest first, at most $2 of them;   *)
(* rows at the same distance come in storage order.                        *)
(***************************************************************************)
Abs(n) == IF n < 0 THEN 0 - n ELSE n

Distance(row, embedding) == Abs(Embed(row.src.PageContent)[1] - embedding[1])

\* a row whose embedding is NULL has a NULL distance
NullDistance(row) == row.cols[vs.embeddingColumn].t = "nil"

DistanceValue(row, embedding) ==
    IF NullDistance(row) THEN GoNil ELSE GoFloat64(Distance(row, embedding))

Passes(row, filters) ==
    \/ filters = ""
    \/ /\ "region" \in DOMAIN row.cols
       /\ row.cols["region"] = GoString("us")

\* the indices of the rows of the answer, in the order of the answer
Ranked(table, embedding, filters, limit) ==
    LET sel == {i \in 1..Len(table) : Passes(table[i], filters)}
        Before(j, i) ==
            \/ ~NullDistance(table[j]) /\ NullDistance(table[i])
            \/ /\ NullDistance(table[j]) = NullDistance(table[i])
               /\ \/ NullDistance(table[i]) /\ j < i
                  \/ /\ ~NullDistance(table[i])
                     /\ \/ Distance(table[j], embedding) < Distance(table[i], embedding)
                        \/ /\ Distance(table[j], embedding)
                                 = Distance(table[i], embedding)
                           /\ j < i
        Pos(i) == 1 + Cardinality({j \in sel : Before(j, i)})
        n == IF Cardinality(sel) < limit THEN Cardinality(sel) ELSE limit
    IN [p \in 1..n |-> CHOOSE i \in sel : Pos(i) = p]

SearchStmt(filters) ==
    LET operatorStr == operator(vs.distanceStrategy)
        function == searchFunction(vs.distanceStrategy)
        columns == vs.metadataColumns
                   \o <<vs.idColumn, vs.contentColumn, vs.embeddingColumn>>
                   \o (IF vs.metadataJsonColumn # ""
                       THEN <<vs.metadataJsonColumn>> ELSE <<>>)
        columnNames == "\" " \o Join(columns, "\", \"") \o "\""
        whereClause == IF filters # "" THEN "WHERE " \o filters ELSE ""
    IN [kind |-> "SELECT", name |-> vs.tableName, columns |-> columns,
        sql |-> "SELECT " \o columnNames \o ", " \o function \o "("
                  \o vs.embeddingColumn \o ", $1) AS distance FROM \""
                  \o vs.schemaName \o "\".\"" \o vs.tableName \o "\" "
                  \o whereClause \o " ORDER BY " \o vs.embeddingColumn \o " "
                  \o operatorStr \o " $1 LIMIT $2;"]

executeSQLQuery(table, stmt, embedding, filters, fail) ==
    IF fail
    THEN [results |-> <<>>, rowIdx |-> <<>>,
          err |-> Wrap("failed to execute similar search query", ErrConn)]
    ELSE LET idx == Ranked(table, embedding, filters, vs.k)
         IN [results |-> [p \in 1..Len(idx) |->
                            MapSet(table[idx[p]].cols, "distance",
                                   DistanceValue(table[idx[p]], embedding))],
             rowIdx |-> idx, err |-> NoError]

\* the loop of processResultsToDocuments from result i on; acc is
\* [docs, err, panic]
RECURSIVE processResultsToDocuments(_, _, _)
processResultsToDocuments(i, results, acc) ==
    IF i > Len(results) THEN acc
    ELSE
    LET row == results[i]
        jc  == vs.metadataJsonColumn
        hasJSON == jc # "" /\ jc \in DOMAIN row /\ row[jc].t # "nil"
        fromJSON == IF hasJSON /\ row[jc].t = "[]byte" /\ ValidJSON(row[jc].b)
                    THEN JSONUnmarshal(row[jc].b) ELSE EmptyMap
        Merge(kv, cols) ==
            [key \in (DOMAIN kv) \cup ({cols[j] : j \in 1..Len(cols)}
                                        \cap DOMAIN row) |->
                IF key \in {cols[j] : j \in 1..Len(cols)} /\ key \in DOMAIN row
                THEN row[key] ELSE kv[key]]
        metadata == Merge(fromJSON, vs.metadataColumns)
    IN IF hasJSON /\ row[jc].t = "[]byte" /\ ~ValidJSON(row[jc].b)
       THEN [docs |-> <<>>, panic |-> FALSE,
             err |-> <<"failed to unmarshal metadata JSON",
                       "unexpected end of JSON input">>]
       ELSE IF hasJSON /\ row[jc].t # "[]byte"
       THEN [docs |-> <<>>, panic |-> FALSE,
             err |-> <<"expected byte slice for metadata JSON">>]
       ELSE IF ~(vs.contentColumn \in DOMAIN row
                 /\ row[vs.contentColumn].t = "string")
       THEN [docs |-> <<>>, err |-> NoError, panic |-> TRUE]
       ELSE IF ~("distance" \in DOMAIN row /\ row["distance"].t = "float64")
       THEN [docs |-> <<>>, panic |-> FALSE,
             err |-> <<"expected distance to be a floating value">>]
       ELSE processResultsToDocuments(i + 1, results,
              [acc EXCEPT !.docs = Append(@,
                  [PageContent |-> row[vs.contentColumn].s,
                   Metadata    |-> metadata,
                   Score       |-> GoFloat32(row["distance"].n)])])

SimilaritySearch(table, query, filters, embedErr, failAt) ==
    IF embedErr
    THEN [stmts |-> <<>>, docs |-> <<>>, rowIdx |-> <<>>, panic |-> FALSE,
          err |-> Wrap("failed embed query", <<"embedder failure">>)]
    ELSE
    LET embedding == Embed(query)
        stmt == SearchStmt(filters)
        q == executeSQLQuery(table, stmt, embedding, filters, failAt = 1)
    IN IF q.err # NoError
       THEN [stmts |-> <<stmt>>, docs |-> <<>>, rowIdx |-> <<>>, panic |-> FALSE,
             err |-> Wrap("failed to execute sql query", q.err)]
       ELSE
       LET d == processResultsToDocuments(1, q.results,
                    [docs |-> <<>>, err |-> NoError, panic |-> FALSE])
       IN IF d.err # NoError
          THEN [stmts |-> <<stmt>>, docs |-> <<>>, rowIdx |-> <<>>,
                panic |-> FALSE,
                err |-> Wrap("failed to process Results to Documents with Scores",
                             d.err)]
          ELSE [stmts |-> <<stmt>>, docs |-> d.docs,
                rowIdx |-> IF d.panic THEN <<>> ELSE q.rowIdx,
                panic |-> d.panic, err |-> NoError]

(***************************************************************************)
(* The earlier revision of SimilaritySearch: the error of EmbedQuery is    *)
(* never looked at, the type assertions on the values of a row are         *)
(* unchecked (a value of another type is a panic), and the distance is     *)
(* kept beside the document and then dropped, so Score stays zero.         *)
(***************************************************************************)
SearchStmtEarly(filters) ==
    LET columns == vs.metadataColumns
                   \o <<vs.idColumn, vs.contentColumn, vs.embeddingColumn>>
                   \o (IF vs.metadataJsonColumn # ""
                       THEN <<vs.metadataJsonColumn>> ELSE <<>>)
        columnNames == "\" " \o Join(columns, "\", \"") \o "\""
        whereClause == IF filters # "" THEN "WHERE " \o filters ELSE ""
    IN [kind |-> "SELECT", name |-> vs.tableName, columns |-> columns,
        sql |-> "\n        SELECT " \o columnNames \o ", "
                  \o searchFunction(vs.distanceStrategy) \o "("
                  \o vs.embeddingColumn \o ", $1) AS distance \n        FROM \""
                  \o vs.schemaName \o "\".\"" \o vs.tableName \o "\" "
                  \o whereClause \o " \n        ORDER BY " \o vs.embeddingColumn
                  \o " " \o operator(vs.distanceStrategy) \o " $1 LIMIT $2;\n    "]

\* Pool.Query with a nil embedding for $1: the distance of every row is NULL
QueryNullEmbedding(table, filters, limit) ==
    LET sel == {i \in 1..Len(table) : Passes(table[i], filters)}
        Pos(i) == Cardinality({j \in sel : j <= i})
        n == IF Cardinality(sel) < limit THEN Cardinality(sel) ELSE limit
        idx == [p \in 1..n |-> CHOOSE i \in sel : Pos(i) = p]
    IN [results |-> [p \in 1..n |-> MapSet(table[idx[p]].cols, "distance", GoNil)],
        rowIdx |-> idx]

\* the loop over the results from result i on; acc is [docs, err, panic]
RECURSIVE processResultsEarly(_, _, _)
processResultsEarly(i, results, acc) ==
    IF i > Len(results) THEN acc
    ELSE
    LET row == results[i]
        jc  == vs.metadataJsonColumn
        hasJSON == jc # "" /\ jc \in DOMAIN row /\ row[jc].t # "nil"
        fromJSON == IF hasJSON /\ row[jc].t = "[]byte" /\ ValidJSON(row[jc].b)
                    THEN JSONUnmarshal(row[jc].b) ELSE EmptyMap
        cols == {vs.metadataColumns[j] : j \in 1..Len(vs.metadataColumns)}
        metadata == [key \in (DOMAIN fromJSON) \cup (cols \cap DOMAIN row) |->
                        IF key \in cols /\ key \in DOMAIN row
                        THEN row[key] ELSE fromJSON[key]]
    IN IF hasJSON /\ row[jc].t = "[]byte" /\ ~ValidJSON(row[jc].b)
       THEN [docs |-> <<>>, panic |-> FALSE,
             err |-> <<"failed to unmarshal metadata JSON",
                       "unexpected end of JSON input">>]
       ELSE IF \/ hasJSON /\ row[jc].t # "[]byte"
               \/ ~(vs.contentColumn \in DOMAIN row /\ row[vs.contentColumn].t = "string")
               \/ ~("distance" \in DOMAIN row /\ row["distance"].t = "float64")
       THEN [docs |-> <<>>, err |-> NoError, panic |-> TRUE]
       ELSE processResultsEarly(i + 1, results,
              [acc EXCEPT !.docs = Append(@,
                  [PageContent |-> row[vs.contentColumn].s,
                   Metadata    |-> metadata,
                   Score       |-> GoFloat32(0)])])

\* the end of the earlier SimilaritySearch, from the answer q of the pool
SearchedEarly(stmt, q) ==
    IF q.err # NoError
    THEN [stmts |-> <<stmt>>, docs |-> <<>>, rowIdx |-> <<>>, panic |-> FALSE,
          err |-> q.err]
    ELSE IF processResultsEarly(1, q.results,
                [docs |-> <<>>, err |-> NoError, panic |-> FALSE]).err # NoError
    THEN [stmts |-> <<stmt>>, docs |-> <<>>, rowIdx |-> <<>>, panic |-> FALSE,
          err |-> processResultsEarly(1, q.results,
                      [docs |-> <<>>, err |-> NoError, panic |-> FALSE]).err]
    ELSE IF processResultsEarly(1, q.results,
                [docs |-> <<>>, err |-> NoError, panic |-> FALSE]).panic
    THEN [stmts |-> <<stmt>>, docs |-> <<>>, rowIdx |-> <<>>, panic |-> TRUE,
          err |-> NoError]
    ELSE [stmts |-> <<stmt>>,
          docs |-> processResultsEarly(1, q.results,
                       [docs |-> <<>>, err |-> NoError, panic |-> FALSE]).docs,
          rowIdx |-> q.rowIdx, panic |-> FALSE, err |-> NoError]

SimilaritySearchEarly(table, query, filters, embedErr, failAt) ==
    SearchedEarly(SearchStmtEarly(filters),
        IF failAt = 1
        THEN [results |-> <<>>, rowIdx |-> <<>>,
              err |-> Wrap("failed to execute similar search query", ErrConn)]
        ELSE IF embedErr
        THEN [results |-> QueryNullEmbedding(table, filters, vs.k).results,
              rowIdx |-> QueryNullEmbedding(table, filters, vs.k).rowIdx,
              err |-> NoError]
        ELSE executeSQLQuery(table, SearchStmtEarly(filters), Embed(query),
                             filters, FALSE))

(***************************************************************************)
(* Concurrent calls of SimilaritySearch on one VectorStore.  The slice     *)
(* vs.metadataColumns is the slice the caller gave to WithMetadataColumns: *)
(* its array may be longer than the slice (spare capacity), and            *)
(* append(vs.metadataColumns, ...) then writes into that array, which      *)
(* every call shares, without any synchronisation.  An element of the      *)
(* shared array holds the set of the values written there: a read that     *)
(* races with these writes may observe any of them.  A slice is            *)
(* [shared, len, own]: shared says that it points at the shared array, own *)
(* is the content of its private array otherwise.                          *)
(***************************************************************************)
Calls == 1..MaxCalls

ConfiguredSlice == [shared |-> TRUE, len |-> Len(vs.metadataColumns), own |-> <<>>]

\* the array behind vs.metadataColumns, with spare elements after the slice
Backing(spare) ==
    [i \in 1..(Len(vs.metadataColumns) + spare) |->
        IF i <= Len(vs.metadataColumns) THEN {vs.metadataColumns[i]} ELSE {}]

\* what reading the first n elements of the shared array can give
Reads(mem, n) ==
    {q \in [1..n -> UNION {mem[i] : i \in 1..n}] : \A i \in 1..n : q[i] \in mem[i]}

\* the built-in append(s, vals...): in place when the capacity allows it,
\* into a new array that holds a copy (read) of the elements otherwise
append(s, mem, vals, read) ==
    IF s.shared
    THEN IF s.len + Len(vals) <= Len(mem)
         THEN [slice |-> [s EXCEPT !.len = @ + Len(vals)],
               mem   |-> [i \in 1..Len(mem) |->
                            IF i > s.len /\ i <= s.len + Len(vals)
                            THEN mem[i] \cup {vals[i - s.len]} ELSE mem[i]]]
         ELSE [slice |-> [shared |-> FALSE, len |-> s.len + Len(vals),
                          own |-> read \o vals],
               mem   |-> mem]
    ELSE [slice |-> [s EXCEPT !.len = @ + Len(vals), !.own = @ \o vals],
          mem   |-> mem]

\* columns = append(...) written as vs.metadataColumns = append(...)
appendColumnsStored(conf, mem, read) ==
    LET r == append(conf, mem, <<vs.idColumn, vs.contentColumn, vs.embeddingColumn>>,
                    read)
    IN [columns |-> r.slice, mem |-> r.mem, conf |-> r.slice]

\* columns := append(vs.metadataColumns, vs.idColumn, vs.contentColumn,
\*                   vs.embeddingColumn)
appendColumns(conf, mem, read) ==
    LET r == append(conf, mem, <<vs.idColumn, vs.contentColumn, vs.embeddingColumn>>,
                    read)
    IN [columns |-> r.slice, mem |-> r.mem, conf |-> conf]

\* the statement of SimilaritySearch for the column list a call has built
SearchStmtFor(columns, filters) ==
    LET operatorStr == operator(vs.distanceStrategy)
        function == searchFunction(vs.distanceStrategy)
        columnNames == "\" " \o Join(columns, "\", \"") \o "\""
        whereClause == IF filters # "" THEN "WHERE " \o filters ELSE ""
    IN [kind |-> "SELECT", name |-> vs.tableName, columns |-> columns,
        sql |-> "SELECT " \o columnNames \o ", " \o function \o "("
                  \o vs.embeddingColumn \o ", $1) AS distance FROM \""
                  \o vs.schemaName \o "\".\"" \o vs.tableName \o "\" "
                  \o whereClause \o " ORDER BY " \o vs.embeddingColumn \o " "
                  \o operatorStr \o " $1 LIMIT $2;"]

IdleCall == [pc |-> "idle"]

\* no call in progress, on an array with that much spare capacity
NoSearch(spare) ==
    [conf |-> ConfiguredSlice, mem |-> Backing(spare),
     calls |-> [p \in Calls |-> IdleCall]]

(***************************************************************************)
(* ChatMessageHistory.  A history c is [sessionID, overwrite]; a row of    *)
(* the table is [session_id, data, type, src], its id is its place in the  *)
(* table; src is not a column: it is the content of the message as the     *)
(* caller gave it.  The column data has the type json: the pool stores the *)
(* JSON value of the text it is sent and refuses a text that is not JSON.  *)
(* A []byte or a string parameter is sent as it is.                        *)
(***************************************************************************)
ChatMessageTypes == {"ai", "human", "system", "generic"}

\* json.Marshal(content) of a string: the JSON string with that content
MarshalString(content) == [j |-> "string", s |-> content]

\* the JSON value of the text content itself
RawJSON(content) ==
    CASE content = "7"        -> [j |-> "number", n |-> 7]
      [] content = "\"hi\""   -> [j |-> "string", s |-> "hi"]
      [] OTHER                -> [j |-> "invalid"]

ErrInvalidJSON == <<"invalid input syntax for type json (SQLSTATE 22P02)">>

ChatStmt(kind) == [kind |-> kind, name |-> "chat"]

ChatRow(c, data, messageType, content) ==
    [session_id |-> c.sessionID, data |-> data, type |-> messageType,
     src |-> content]

addMessage(c, table, content, messageType, fail) ==
    IF fail
    THEN [chat |-> table, stmts |-> <<ChatStmt("INSERT")>>,
          err |-> Wrap("failed to add message to database", ErrConn)]
    ELSE [chat |-> Append(table, ChatRow(c, MarshalString(content), messageType,
                                            content)),
          stmts |-> <<ChatStmt("INSERT")>>, err |-> NoError]

\* a Clear that does not look at c.overwrite
ClearUnchecked(c, table, fail) ==
    IF fail
    THEN [chat |-> table, stmts |-> <<ChatStmt("DELETE")>>,
          err |-> Wrap("failed to clear session " \o c.sessionID, ErrConn)]
    ELSE LET Others(row) == row.session_id # c.sessionID
         IN [chat |-> SelectSeq(table, Others),
             stmts |-> <<ChatStmt("DELETE")>>, err |-> NoError]

Clear(c, table, fail) ==
    IF ~c.overwrite
    THEN [chat |-> table, stmts |-> <<>>, err |-> NoError]
    ELSE IF fail
    THEN [chat |-> table, stmts |-> <<ChatStmt("DELETE")>>,
          err |-> Wrap("failed to clear session " \o c.sessionID, ErrConn)]
    ELSE LET Others(row) == row.session_id # c.sessionID
         IN [chat |-> SelectSeq(table, Others),
             stmts |-> <<ChatStmt("DELETE")>>, err |-> NoError]

\* Pool.SendBatch(ctx, b).Close() on a batch of INSERTs of the rows batch:
\* the batch is applied whole or not at all
SendChatBatch(table, stmtsBefore, batch, fail) ==
    IF fail
    THEN [chat |-> table, err |-> ErrConn,
          stmts |-> stmtsBefore \o [i \in 1..Len(batch) |-> ChatStmt("INSERT")]]
    ELSE IF \E i \in 1..Len(batch) : batch[i].data.j = "invalid"
    THEN [chat |-> table, err |-> ErrInvalidJSON,
          stmts |-> stmtsBefore \o [i \in 1..Len(batch) |-> ChatStmt("INSERT")]]
    ELSE [chat |-> table \o batch, err |-> NoError,
          stmts |-> stmtsBefore \o [i \in 1..Len(batch) |-> ChatStmt("INSERT")]]

\* AddMessages queues message.GetContent() itself, not its JSON encoding
AddMessages(c, table, messages, fail) ==
    SendChatBatch(table, <<>>,
        [i \in 1..Len(messages) |->
            ChatRow(c, RawJSON(messages[i].content), messages[i].type,
                    messages[i].content)],
        fail)

\* a row Messages cannot turn into a message, and the error it returns then
Unreadable(row) ==
    IF row.data.j # "string"
    THEN Wrap("failed to unmarshal data",
              <<"json: cannot unmarshal " \o row.data.j
                  \o " into Go value of type string">>)
    ELSE IF row.type \notin {"ai", "human", "system"}
    THEN <<"unsupported message type: " \o row.type>>
    ELSE NoError

Messages(c, table, fail) ==
    LET Mine(row) == row.session_id = c.sessionID
        mine == SelectSeq(table, Mine)
        bad  == {i \in 1..Len(mine) : Unreadable(mine[i]) # NoError}
    IN IF fail
       THEN [messages |-> <<>>, stmts |-> <<ChatStmt("SELECT")>>,
             err |-> Wrap("failed to retrieve messages", ErrConn)]
       ELSE IF bad # {}
       THEN [messages |-> <<>>, stmts |-> <<ChatStmt("SELECT")>>,
             err |-> Unreadable(mine[CHOOSE i \in bad : \A k \in bad : i <= k])]
       ELSE [messages |-> [i \in 1..Len(mine) |->
                             [type |-> mine[i].type, content |-> mine[i].data.s]],
             stmts |-> <<ChatStmt("SELECT")>>, err |-> NoError]

\* failAt = 1: the DELETE of Clear fails; failAt = 2: the batch fails
SetMessages(c, table, messages, failAt) ==
    IF ~c.overwrite
    THEN [chat |-> table, stmts |-> <<>>, err |-> NoError]
    ELSE IF Clear(c, table, failAt = 1).err # NoError
    THEN Clear(c, table, failAt = 1)
    ELSE SendChatBatch(Clear(c, table, FALSE).chat, Clear(c, table, FALSE).stmts,
            [i \in 1..Len(messages) |->
                ChatRow(c, MarshalString(messages[i].content), messages[i].type,
                        messages[i].content)],
            failAt = 2)

\* histories, and the messages their callers hand over
Histories == [sessionID : {"s1", "s2"}, overwrite : BOOLEAN]

Contents == {"hi", "7"}

ChatMessages == [type : {"ai", "generic"}, content : Contents]

(***************************************************************************)
(* Inputs of ingestion and search.                                         *)
(***************************************************************************)
Document(content, metadata) == [PageContent |-> content, Metadata |-> metadata]

Documents ==
    { Document("hello", Map([x \in {"region"} |-> GoString("us")])),
      Document("hello", NilMetadata),
      Document("bye", Map([x \in {"id", "n"} |->
                              IF x = "id" THEN GoString("doc-1") ELSE GoInt(1)])),
      Document("bye", Map([x \in {"id", "region"} |->
                              IF x = "id" THEN GoInt(7) ELSE GoString("eu")])),
      Document("bye", Map([x \in {"n"} |-> GoChan])) }

RECURSIVE SeqsUpTo(_, _)
SeqsUpTo(S, n) ==
    IF n = 0 THEN {<<>>}
    ELSE LET shorter == SeqsUpTo(S, n - 1)
         IN shorter \cup {Append(q, x) : q \in shorter, x \in S}

DocumentLists == SeqsUpTo(Documents, MaxDocs)

Queries == {"hello", "bye"}

\* the number of documents a caller of SimilaritySearch asks for; the
\* examples pass 0 when they ask for no number of their own
NumDocuments == {0, 1}

\* rows that another client of the table has written: the values of the
\* columns of the row, and the text its embedding stands for
ForeignRow(content, embedding, json) ==
    [cols |-> [c \in {vs.idColumn, vs.contentColumn, vs.embeddingColumn,
                      vs.metadataJsonColumn} |->
                  CASE c = vs.idColumn -> GoString("foreign")
                    [] c = vs.contentColumn -> content
                    [] c = vs.embeddingColumn -> embedding
                    [] OTHER -> json],
     src  |-> [PageContent |-> "bye", Metadata |-> NilMetadata, foreign |-> TRUE]]

ForeignRows ==
    { ForeignRow(GoNil, GoString("[2]"), GoBytes(<<>>)),
      ForeignRow(GoString("bye"), GoNil, GoBytes(<<>>)),
      ForeignRow(GoString("bye"), GoString("[2]"), GoBytes(MalformedJSON)),
      ForeignRow(GoString("bye"), GoString("[2]"), GoString("{}")) }
Filters == {"", "region = 'us'"}

(***************************************************************************)
(* Actions: one per operation of the VectorStore.                          *)
(***************************************************************************)
DoApplyVectorIndex ==
    /\ call.op = "idle"
    /\ \E index \in BaseIndexes, name \in NameArgs, concurrently \in BOOLEAN,
       overwrite \in BOOLEAN, indexOpts \in IndexOptsArgs, failAt \in 0..MaxFail :
        LET r == ApplyVectorIndex(DB, index, name, concurrently, overwrite,
                                  indexOpts, failAt)
        IN /\ indexes' = r.db.indexes
           /\ extensions' = r.db.extensions
           /\ call' = [op |-> "ApplyVectorIndex", index |-> index, name |-> name,
                       concurrently |-> concurrently, overwrite |-> overwrite,
                       indexOpts |-> indexOpts, failAt |-> failAt,
                       before |-> indexes]
           /\ stmts' = r.stmts
           /\ ret' = [err |-> r.err]
           /\ UNCHANGED <<rows, nextUUID, search, chat, loads>>

DoDropVectorIndex ==
    /\ call.op = "idle"
    /\ \E name \in NameArgs, overwrite \in BOOLEAN, failAt \in 0..MaxFail :
        LET r == DropVectorIndex(DB, name, overwrite, failAt)
        IN /\ indexes' = r.db.indexes
           /\ extensions' = r.db.extensions
           /\ call' = [op |-> "DropVectorIndex", name |-> name,
                       overwrite |-> overwrite, failAt |-> failAt,
                       before |-> indexes]
           /\ stmts' = r.stmts
           /\ ret' = [err |-> r.err]
           /\ UNCHANGED <<rows, nextUUID, search, chat, loads>>

DoReIndex ==
    /\ call.op = "idle"
    /\ \E name \in NameArgs, failAt \in 0..MaxFail :
        LET r == ReIndex(DB, name, failAt)
        IN /\ indexes' = r.db.indexes
           /\ extensions' = r.db.extensions
           /\ call' = [op |-> "ReIndex", name |-> name, failAt |-> failAt,
                       before |-> indexes]
           /\ stmts' = r.stmts
           /\ ret' = [err |-> r.err]
           /\ UNCHANGED <<rows, nextUUID, search, chat, loads>>

DoIsValidIndex ==
    /\ call.op = "idle"
    /\ \E name \in NameArgs, failAt \in 0..MaxFail :
        LET r == IsValidIndex(DB, name, failAt)
        IN /\ call' = [op |-> "IsValidIndex", name |-> name, failAt |-> failAt,
                       before |-> indexes]
           /\ stmts' = r.stmts
           /\ ret' = [err |-> r.err, valid |-> r.valid]
           /\ UNCHANGED <<indexes, extensions, rows, nextUUID, search, chat, loads>>

\* BaseIndex.indexOptions in its three revisions, on the same index type
DoIndexOptions ==
    /\ call.op = "idle"
    /\ \E indexType \in IndexTypes, indexOpts \in PositionalOptions,
          options \in TypedOptions :
        LET typed == indexOptionsTyped(indexType, options)
        IN /\ call' = [op |-> "indexOptions", indexType |-> indexType,
                       indexOpts |-> indexOpts, options |-> options]
           /\ stmts' = <<>>
           /\ ret' = [err |-> typed.err, typed |-> typed.clause,
                      clause |-> indexOptions(
                                    NewBaseIndex("", indexType,
                                                 defaultDistanceStrategy, <<>>),
                                    indexOpts),
                      fixed |-> indexOptionsFixed(indexType)]
           /\ UNCHANGED <<indexes, extensions, rows, nextUUID, search, chat, loads>>

\* operator() and searchFunction() on a variant, in the revision with one
\* struct per variant or in the one with an int; the caller may keep the
\* answers of one call (earlier) while it makes the next
DoDistanceStrategy ==
    /\ call.op \in {"idle", "distanceStrategy"}
    /\ \E ds \in DistanceStrategies, rev \in {"struct", "enum"} :
        /\ call' = [op |-> "distanceStrategy", ds |-> ds, rev |-> rev,
                    earlier |-> IF call.op = "idle"
                                THEN [ds |-> "", rev |-> "", operator |-> "",
                                      searchFunction |-> ""]
                                ELSE [ds |-> call.ds, rev |-> call.rev,
                                      operator |-> ret.operator,
                                      searchFunction |-> ret.searchFunction]]
        /\ stmts' = <<>>
        /\ ret' = [err |-> NoError, operator |-> operator(ds),
                   searchFunction |-> IF rev = "enum" THEN searchFunctionEnum(ds)
                                      ELSE searchFunction(ds)]
        /\ UNCHANGED <<indexes, extensions, rows, nextUUID, search, chat, loads>>

\* the table and the caller after a call cl of a history with outcome r
Chatted(cl, r, messages) ==
    /\ Len(r.chat) <= MaxMessages
    /\ chat' = r.chat
    /\ call' = cl
    /\ stmts' = r.stmts
    /\ ret' = [err |-> r.err, messages |-> messages]
    /\ UNCHANGED <<indexes, extensions, rows, nextUUID, search, loads>>

\* AddMessage, AddAIMessage and AddUserMessage: addMessage with the content
\* and the type of the message, with the type AI, with the type human
DoAddMessage ==
    /\ call.op = "idle"
    /\ \E c \in Histories, fail \in BOOLEAN,
          m \in [type : ChatMessageTypes, content : Contents],
          op \in {"AddMessage", "AddAIMessage", "AddUserMessage"} :
        /\ op = "AddMessage" => m \in ChatMessages
        /\ op = "AddAIMessage" => m.type = "ai"
        /\ op = "AddUserMessage" => m.type = "human"
        /\ Chatted([op |-> op, c |-> c, messages |-> <<m>>, fail |-> fail,
                    before |-> chat],
                   addMessage(c, chat, m.content, m.type, fail), <<>>)

DoAddMessages ==
    /\ call.op = "idle"
    /\ \E c \in Histories, messages \in SeqsUpTo(ChatMessages, MaxBatch),
          fail \in BOOLEAN :
        Chatted([op |-> "AddMessages", c |-> c, messages |-> messages,
                 fail |-> fail, before |-> chat],
                AddMessages(c, chat, messages, fail), <<>>)

DoClear ==
    /\ call.op = "idle"
    /\ \E c \in Histories, fail \in BOOLEAN :
        Chatted([op |-> "Clear", c |-> c, messages |-> <<>>, fail |-> fail,
                 before |-> chat],
                Clear(c, chat, fail), <<>>)

DoSetMessages ==
    /\ call.op = "idle"
    /\ \E c \in Histories, messages \in SeqsUpTo(ChatMessages, MaxBatch),
          failAt \in 0..2 :
        Chatted([op |-> "SetMessages", c |-> c, messages |-> messages,
                 fail |-> failAt # 0, before |-> chat],
                SetMessages(c, chat, messages, failAt), <<>>)

DoMessages ==
    /\ call.op = "idle"
    /\ \E c \in Histories, fail \in BOOLEAN :
        Chatted([op |-> "Messages", c |-> c, messages |-> <<>>, fail |-> fail,
                 before |-> chat],
                [chat |-> chat, stmts |-> Messages(c, chat, fail).stmts,
                 err |-> Messages(c, chat, fail).err],
                Messages(c, chat, fail).messages)

\* the store and the caller after a call c of AddDocuments with outcome r
Ingested(c, r) ==
    /\ r.next <= MaxUUID
    /\ rows' = r.rows
    /\ nextUUID' = r.next
    /\ call' = c
    /\ stmts' = r.stmts
    /\ ret' = [err |-> r.err, ids |-> r.ids, panic |-> r.panic, docs |-> r.docs]
    /\ UNCHANGED <<indexes, extensions, search, chat, loads>>

DoAddDocuments ==
    /\ call.op = "idle"
    /\ \E docs \in DocumentLists, embedErr \in BOOLEAN,
          numVectors \in 0..(MaxDocs + 1), failAt \in 0..1 :
        /\ Len(rows) + Len(docs) <= MaxRows
        /\ Ingested([op |-> "AddDocuments", docs |-> docs, embedErr |-> embedErr,
                     numVectors |-> numVectors, failAt |-> failAt,
                     before |-> rows, jsonColumn |-> vs.metadataJsonColumn],
                    AddDocuments(rows, nextUUID, docs, embedErr, numVectors,
                                 failAt))

\* the store of the call has the default JSON column, or none
DoAddDocumentsEarly ==
    /\ call.op = "idle"
    /\ \E docs \in DocumentLists, embedErr \in BOOLEAN,
          numVectors \in 0..(MaxDocs + 1), failAt \in 0..1,
          jsonColumn \in {defaultMetadataJsonColumn, ""} :
        /\ Len(rows) + Len(docs) <= MaxRows
        /\ Ingested([op |-> "AddDocumentsEarly", docs |-> docs,
                     embedErr |-> embedErr, numVectors |-> numVectors,
                     failAt |-> failAt, before |-> rows,
                     jsonColumn |-> jsonColumn],
                    AddDocumentsEarly(jsonColumn, rows, nextUUID, docs, embedErr,
                                      numVectors, failAt))

\* the third parameter of SimilaritySearch, the number of documents the
\* caller asks for, is the blank parameter (_ int): no step reads it
DoSimilaritySearch ==
    /\ call.op = "idle"
    /\ \E query \in Queries, numDocuments \in NumDocuments, filters \in Filters,
          embedErr \in BOOLEAN, failAt \in 0..1 :
        LET r == SimilaritySearch(rows, query, filters, embedErr, failAt)
        IN /\ call' = [op |-> "SimilaritySearch", query |-> query,
                       numDocuments |-> numDocuments,
                       filters |-> filters, embedErr |-> embedErr,
                       failAt |-> failAt, before |-> rows]
           /\ stmts' = r.stmts
           /\ ret' = [err |-> r.err, docs |-> r.docs, rowIdx |-> r.rowIdx,
                      panic |-> r.panic]
           /\ UNCHANGED <<indexes, extensions, rows, nextUUID, search, chat, loads>>

\* another client of the table inserts a row of its own
DoForeignInsert ==
    /\ call.op = "idle"
    /\ Len(rows) < MaxRows
    /\ \E row \in ForeignRows : rows' = Append(rows, row)
    /\ UNCHANGED <<indexes, extensions, nextUUID, call, stmts, ret, search, chat, loads>>

\* the caller after a call c of SimilaritySearch with outcome r
Searched(c, r) ==
    /\ call' = c
    /\ stmts' = r.stmts
    /\ ret' = [err |-> r.err, docs |-> r.docs, rowIdx |-> r.rowIdx,
               panic |-> r.panic]
    /\ UNCHANGED <<indexes, extensions, rows, nextUUID, search, chat, loads>>

DoSimilaritySearchEarly ==
    /\ call.op = "idle"
    /\ \E query \in Queries, numDocuments \in NumDocuments, filters \in Filters,
          embedErr \in BOOLEAN, failAt \in 0..1 :
        Searched([op |-> "SimilaritySearchEarly", query |-> query,
                  numDocuments |-> numDocuments, filters |-> filters, embedErr |-> embedErr,
                  failAt |-> failAt, before |-> rows],
                 SimilaritySearchEarly(rows, query, filters, embedErr, failAt))

\* the steps of one call p of SimilaritySearch among concurrent ones
SearchBegin(p) ==
    /\ search.calls[p].pc = "idle"
    /\ \E filters \in Filters :
          search' = [search EXCEPT !.calls[p] =
                        [pc |-> "append", filters |-> filters]]
    /\ UNCHANGED <<indexes, extensions, rows, nextUUID, call, stmts, ret, chat, loads>>

SearchAppend(p) ==
    /\ search.calls[p].pc = "append"
    /\ \E read \in Reads(search.mem, search.conf.len) :
          LET r == appendColumns(search.conf, search.mem, read)
          IN search' = [search EXCEPT
                           !.conf = r.conf,
                           !.mem = r.mem,
                           !.calls[p] =
                               [pc |-> IF vs.metadataJsonColumn # ""
                                       THEN "appendJSON" ELSE "join",
                                filters |-> search.calls[p].filters,
                                columns |-> r.columns]]
    /\ UNCHANGED <<indexes, extensions, rows, nextUUID, call, stmts, ret, chat, loads>>

SearchAppendJSON(p) ==
    /\ search.calls[p].pc = "appendJSON"
    /\ \E read \in Reads(search.mem, IF search.calls[p].columns.shared
                                     THEN search.calls[p].columns.len ELSE 0) :
          LET r == append(search.calls[p].columns, search.mem,
                          <<vs.metadataJsonColumn>>, read)
          IN search' = [search EXCEPT
                           !.mem = r.mem,
                           !.calls[p] = [@ EXCEPT !.pc = "join",
                                                  !.columns = r.slice]]
    /\ UNCHANGED <<indexes, extensions, rows, nextUUID, call, stmts, ret, chat, loads>>

\* strings.Join(columns, ...) reads the elements of columns
SearchJoin(p) ==
    /\ search.calls[p].pc = "join"
    /\ \E read \in Reads(search.mem, IF search.calls[p].columns.shared
                                     THEN search.calls[p].columns.len ELSE 0) :
          LET names == IF search.calls[p].columns.shared THEN read
                       ELSE search.calls[p].columns.own
          IN search' = [search EXCEPT !.calls[p] =
                           [pc |-> "done",
                            filters |-> search.calls[p].filters,
                            columns |-> search.calls[p].columns,
                            stmt |-> SearchStmtFor(names, search.calls[p].filters)]]
    /\ UNCHANGED <<indexes, extensions, rows, nextUUID, call, stmts, ret, chat, loads>>

SearchReturn(p) ==
    /\ search.calls[p].pc = "done"
    /\ search' = [search EXCEPT !.calls[p] = IdleCall]
    /\ UNCHANGED <<indexes, extensions, rows, nextUUID, call, stmts, ret, chat, loads>>

(***************************************************************************)
(* The engine: NewPostgresEngine, applyClientOptions, createPool, getUser. *)
(* rev "alloydbutil" is the engine with a cluster field whose getUser      *)
(* honours iamAccountEmail; rev "cloudsqlutil" has no cluster and its      *)
(* getUser ignores the configured email.  An error is the chain of its     *)
(* wrapped messages, <<>> is nil.                                          *)
(***************************************************************************)
EngineRevs == {"alloydbutil", "cloudsqlutil"}

EngineConfigs ==
    [connPool : BOOLEAN, projectID : {"", "p"}, region : {"", "r"},
     cluster : {"", "c"}, instance : {"", "i"}, user : {"", "testUser"},
     password : {"", "testPass"}, iamAccountEmail : {"", "iam@test.com"}]

Retrievals ==
    { [email |-> "sa@test.com", err |-> <<>>],
      [email |-> "", err |-> <<"missing or invalid credentials">>] }

PoolErrs ==
    {"", "failed to initialize connection: ", "unable to create connection pool: "}

applyClientOptions(cfg, rev) ==
    IF /\ ~cfg.connPool
       /\ cfg.projectID = ""
       /\ cfg.region = ""
       /\ (rev = "alloydbutil" => cfg.cluster = "")
       /\ cfg.instance = ""
    THEN <<"missing connection: provide a connection pool or connection fields">>
    ELSE <<>>

getUserAnyCredential(config, rev, retrieved) ==
    IF config.user # ""
    THEN [username |-> config.user, usingIAMAuth |-> FALSE, err |-> <<>>]
    ELSE IF retrieved.err # <<>>
    THEN [username |-> "", usingIAMAuth |-> FALSE,
          err |-> <<"unable to retrieve service account email: ">> \o retrieved.err]
    ELSE [username |-> retrieved.email, usingIAMAuth |-> TRUE, err |-> <<>>]

getUser(config, rev, retrieved) ==
    IF config.user # "" /\ config.password # ""
    THEN [username |-> config.user, usingIAMAuth |-> FALSE, err |-> <<>>]
    ELSE IF rev = "alloydbutil" /\ config.iamAccountEmail # ""
    THEN [username |-> config.iamAccountEmail, usingIAMAuth |-> TRUE, err |-> <<>>]
    ELSE IF config.user = "" /\ config.password = ""
    THEN IF retrieved.err # <<>>
         THEN [username |-> "", usingIAMAuth |-> FALSE,
               err |-> <<"unable to retrieve service account email: ">> \o retrieved.err]
         ELSE [username |-> retrieved.email, usingIAMAuth |-> TRUE, err |-> <<>>]
    ELSE [username |-> "", usingIAMAuth |-> FALSE,
          err |-> <<"unable to retrieve a valid username">>]

createPool(cfg, usingIAMAuth, poolErr) ==
    IF poolErr # ""
    THEN [pool |-> "nil", err |-> <<poolErr>>]
    ELSE [pool |-> "created", err |-> <<>>]

NewPostgresEngine(cfg, rev, retrieved, poolErr) ==
    LET optErr == applyClientOptions(cfg, rev)
        u      == getUser(cfg, rev, retrieved)
        p      == createPool(cfg, u.usingIAMAuth, poolErr)
    IN  IF optErr # <<>>
        THEN [err |-> optErr, pool |-> "nil", user |-> ""]
        ELSE IF u.err # <<>>
        THEN [err |-> <<"error assigning user. Err: ">> \o u.err,
              pool |-> "nil", user |-> ""]
        ELSE IF cfg.connPool
        THEN [err |-> <<>>, pool |-> "supplied",
              user |-> IF u.usingIAMAuth THEN u.username ELSE cfg.user]
        ELSE [err |-> p.err, pool |-> p.pool,
              user |-> IF u.usingIAMAuth THEN u.username ELSE cfg.user]

DoNewPostgresEngine ==
    /\ call.op = "idle"
    /\ \E cfg \in EngineConfigs, rev \in EngineRevs,
          retrieved \in Retrievals, poolErr \in PoolErrs :
        /\ rev = "cloudsqlutil" => cfg.cluster = ""
        /\ call' = [op |-> "NewPostgresEngine", cfg |-> cfg, rev |-> rev,
                    retrieved |-> retrieved, poolErr |-> poolErr]
        /\ ret' = NewPostgresEngine(cfg, rev, retrieved, poolErr)
    /\ UNCHANGED <<indexes, extensions, rows, nextUUID, stmts, search, chat, loads>>

DoGetUser ==
    /\ call.op = "idle"
    /\ \E cfg \in EngineConfigs, rev \in EngineRevs, retrieved \in Retrievals :
        /\ rev = "cloudsqlutil" => cfg.cluster = ""
        /\ call' = [op |-> "getUser", cfg |-> cfg, rev |-> rev,
                    retrieved |-> retrieved]
        /\ ret' = getUser(cfg, rev, retrieved)
    /\ UNCHANGED <<indexes, extensions, rows, nextUUID, stmts, search, chat, loads>>

(***************************************************************************)
(* DocumentLoader.  A query result is [columns, rows]: columns are the     *)
(* field descriptions [name, oid] and a row is the sequence of its values. *)
(* A loader is [rev, contentColumns, metadataColumns, metadataJSONColumn]; *)
(* rev "oidProcessor" is documentloader.go with documentloader_option.go,  *)
(* rev "switch" is the loader that allocates its scan destinations inside  *)
(* Load.  The query, the format and the engine are taken to be valid.      *)
(***************************************************************************)
LoaderRevs == {"oidProcessor", "switch"}

\* the OIDs newOidProcessor and the type switch list (one per Go type)
ListedOIDs == {"text", "json", "int4"}

\* what Go prints for a nil value
Nil == "<nil>"

QueryResults ==
    { [columns |-> << [name |-> "a", oid |-> "text"], [name |-> "b", oid |-> "text"],
                      [name |-> "langchain_metadata", oid |-> "json"] >>,
       rows |-> << <<"a1", "b1", "{}">>, <<"a2", "b2", "{}">> >>],
      [columns |-> << [name |-> "a", oid |-> "text"], [name |-> "u", oid |-> "uuid"],
                      [name |-> "langchain_metadata", oid |-> "json"] >>,
       rows |-> << <<"a1", "u1", "{}">>, <<"a2", "u2", "{}">> >>],
      [columns |-> << [name |-> "a", oid |-> "text"], [name |-> "b", oid |-> "int4"] >>,
       rows |-> << <<"a1", "1">>, <<"a2", "2">> >>],
      [columns |-> << [name |-> "a", oid |-> "text"], [name |-> "m", oid |-> "json"] >>,
       rows |-> << <<"a1", "{}">> >>] }

LoaderOptions ==
    [contentColumns : {<<>>, <<"a">>, <<"z">>},
     metadataColumns : {<<>>, <<"b">>},
     metadataJSONColumn : {"", "m", "langchain_metadata"}]

NoLoader ==
    [rev |-> "none", contentColumns |-> <<>>, metadataColumns |-> <<>>,
     metadataJSONColumn |-> ""]

ColumnNames(columns) == [i \in 1..Len(columns) |-> columns[i].name]

HasColumn(columns, name) == \E i \in 1..Len(columns) : columns[i].name = name

ColumnIndex(columns, name) == CHOOSE i \in 1..Len(columns) : columns[i].name = name

SeqRange(q) == {q[i] : i \in 1..Len(q)}

\* the name in the error of validateColumns is the first missing one that
\* the iteration over a Go map meets, so the model leaves it out
NewDocumentLoader(rev, options, columns) ==
    LET content == IF options.contentColumns = <<>>
                   THEN <<columns[1].name>>
                   ELSE options.contentColumns
        others(n) == n \notin SeqRange(content)
        metadata == IF options.metadataColumns = <<>>
                    THEN SelectSeq(ColumnNames(columns), others)
                    ELSE options.metadataColumns
        jsonColumn == IF options.metadataJSONColumn = ""
                      THEN "langchain_metadata"
                      ELSE options.metadataJSONColumn
        looked == rev = "switch" \/ options.metadataJSONColumn # ""
    IN  IF looked /\ ~HasColumn(columns, jsonColumn)
        THEN [err |-> <<"metadata JSON column not found in query result", jsonColumn>>,
              loader |-> NoLoader]
        ELSE IF \E n \in SeqRange(content) \cup SeqRange(metadata) :
                    ~HasColumn(columns, n)
        THEN [err |-> <<"column not found in query result">>, loader |-> NoLoader]
        ELSE [err |-> <<>>,
              loader |-> [rev |-> rev, contentColumns |-> content,
                          metadataColumns |-> metadata,
                          metadataJSONColumn |-> jsonColumn]]

\* the destinations of newOidProcessor before any scan
NewOidProcessor == [o \in ListedOIDs |-> "zero"]

\* rows.Scan(valuesPrt...): with the oidProcessor the destination of a column
\* is the one pointer the map holds for its OID, nil for an OID that is not
\* listed (pgx skips a nil destination); with the switch every column has
\* a destination of its own.  shared are the destinations of the loader,
\* local those of the call.
LastOf(columns, oid) ==
    CHOOSE i \in 1..Len(columns) :
        /\ columns[i].oid = oid
        /\ \A j \in (i + 1)..Len(columns) : columns[j].oid # oid

ScanRow(l, columns, row, shared, local) ==
    IF l.rev = "oidProcessor"
    THEN [shared |-> [o \in ListedOIDs |->
                         IF \E i \in 1..Len(columns) : columns[i].oid = o
                         THEN row[LastOf(columns, o)]
                         ELSE shared[o]],
          local |-> local]
    ELSE [shared |-> shared, local |-> row]

\* valueProcessor.process, or the type switch of Load
ColumnValues(l, columns, shared, local) ==
    [n \in SeqRange(ColumnNames(columns)) |->
        LET i == ColumnIndex(columns, n)
        IN  IF l.rev = "oidProcessor"
            THEN IF columns[i].oid \in ListedOIDs
                 THEN shared[columns[i].oid]
                 ELSE Nil
            ELSE local[i]]

\* "{}" is the only JSON object among the values of the model
parseDocFromRow(l, row) ==
    LET value == IF l.metadataJSONColumn \in DOMAIN row
                 THEN row[l.metadataJSONColumn]
                 ELSE Nil
        doc == [PageContent |-> [i \in 1..Len(l.contentColumns) |->
                                    row[l.contentColumns[i]]],
                Metadata |-> [c \in SeqRange(l.metadataColumns)
                                        \ {l.metadataJSONColumn} |-> row[c]]]
    IN  IF value = Nil
        THEN [err |-> <<"failed to parse JSON from column: invalid column type",
                        l.metadataJSONColumn>>,
              docs |-> <<>>]
        ELSE IF value # "{}"
        THEN [err |-> <<"failed to parse JSON from column: ", l.metadataJSONColumn>>,
              docs |-> <<>>]
        ELSE [err |-> <<>>, docs |-> <<doc>>]

\* Load run from row k on, with no other call on the loader
RECURSIVE LoadFrom(_, _, _, _, _, _)
LoadFrom(l, table, k, shared, local, docs) ==
    IF k > Len(table.rows)
    THEN [err |-> <<>>, docs |-> docs, shared |-> shared]
    ELSE LET s == ScanRow(l, table.columns, table.rows[k], shared, local)
             d == parseDocFromRow(l, ColumnValues(l, table.columns, s.shared, s.local))
         IN  IF d.err # <<>>
             THEN [err |-> d.err, docs |-> <<>>, shared |-> s.shared]
             ELSE LoadFrom(l, table, k + 1, s.shared, s.local, docs \o d.docs)

Load(l, table, shared) == LoadFrom(l, table, 1, shared, <<>>, <<>>)

IdleLoad == [pc |-> "idle", k |-> 0, local |-> <<>>, docs |-> <<>>, err |-> <<>>]

\* no loader yet
NoLoads ==
    [l |-> NoLoader, table |-> [columns |-> <<>>, rows |-> <<>>],
     shared |-> NewOidProcessor, calls |-> [p \in Calls |-> IdleLoad]]

LoadsIdle == \A p \in Calls : loads.calls[p].pc = "idle"

DoNewDocumentLoader ==
    /\ call.op = "idle"
    /\ LoadsIdle
    /\ \E rev \in LoaderRevs, options \in LoaderOptions, table \in QueryResults :
        LET r == NewDocumentLoader(rev, options, table.columns)
        IN  /\ call' = [op |-> "NewDocumentLoader", rev |-> rev,
                        options |-> options, columns |-> table.columns]
            /\ ret' = r
            /\ loads' = IF r.err = <<>>
                        THEN [l |-> r.loader, table |-> table,
                              shared |-> NewOidProcessor,
                              calls |-> [p \in Calls |-> IdleLoad]]
                        ELSE loads
    /\ UNCHANGED <<indexes, extensions, rows, nextUUID, stmts, search, chat>>

\* a call of Load with no other call on the loader
DoLoad ==
    /\ call.op = "idle"
    /\ LoadsIdle
    /\ loads.l.rev # "none"
    /\ LET r == Load(loads.l, loads.table, loads.shared)
       IN  /\ call' = [op |-> "Load"]
           /\ ret' = [err |-> r.err, docs |-> r.docs]
           /\ loads' = [loads EXCEPT !.shared = r.shared]
    /\ UNCHANGED <<indexes, extensions, rows, nextUUID, stmts, search, chat>>

(***************************************************************************)
(* Load, one step at a time, for calls that run at the same time on one    *)
(* loader: the query, the two scans of a row, the processing of the row.   *)
(* The scan of a row is taken as one step; the writes of two scans to a    *)
(* shared destination are not ordered by anything in the code.             *)
(***************************************************************************)
LoadBegin(p) ==
    /\ loads.l.rev # "none"
    /\ loads.calls[p].pc = "idle"
    /\ loads' = [loads EXCEPT !.calls[p] =
                    [pc |-> IF loads.table.rows = <<>> THEN "done" ELSE "scan",
                     k |-> 1, local |-> <<>>, docs |-> <<>>, err |-> <<>>]]
    /\ UNCHANGED <<indexes, extensions, rows, nextUUID, call, stmts, ret, search, chat>>

LoadScan(p) ==
    /\ loads.calls[p].pc \in {"scan", "rescan"}
    /\ LET c == loads.calls[p]
           s == ScanRow(loads.l, loads.table.columns, loads.table.rows[c.k],
                        loads.shared, c.local)
       IN  loads' = [loads EXCEPT
                        !.shared = s.shared,
                        !.calls[p] = [c EXCEPT
                            !.pc = IF c.pc = "scan" THEN "rescan" ELSE "process",
                            !.local = s.local]]
    /\ UNCHANGED <<indexes, extensions, rows, nextUUID, call, stmts, ret, search, chat>>

LoadProcess(p) ==
    /\ loads.calls[p].pc = "process"
    /\ LET c == loads.calls[p]
           d == parseDocFromRow(loads.l,
                    ColumnValues(loads.l, loads.table.columns, loads.shared, c.local))
       IN  loads' = [loads EXCEPT !.calls[p] =
                        IF d.err # <<>>
                        THEN [c EXCEPT !.pc = "done", !.docs = <<>>, !.err = d.err]
                        ELSE [c EXCEPT
                                !.pc = IF c.k = Len(loads.table.rows)
                                       THEN "done" ELSE "scan",
                                !.k = c.k + 1,
                                !.docs = c.docs \o d.docs]]
    /\ UNCHANGED <<indexes, extensions, rows, nextUUID, call, stmts, ret, search, chat>>

LoadReturn(p) ==
    /\ loads.calls[p].pc = "done"
    /\ loads' = [loads EXCEPT !.calls[p] = IdleLoad]
    /\ UNCHANGED <<indexes, extensions, rows, nextUUID, call, stmts, ret, search, chat>>

Init ==
    /\ indexes = {}
    /\ extensions = FALSE
    /\ rows = <<>>
    /\ nextUUID = 0
    /\ call = [op |-> "idle"]
    /\ stmts = <<>>
    /\ ret = [err |-> NoError]
    /\ search = NoSearch(0)
    /\ chat = <<>>
    /\ loads = NoLoads

\* the caller has taken the result; the store is ready for the next call
Return ==
    /\ call.op # "idle"
    /\ call' = [op |-> "idle"]
    /\ stmts' = <<>>
    /\ ret' = [err |-> NoError]
    /\ UNCHANGED <<indexes, extensions, rows, nextUUID, search, chat, loads>>

\* a VectorStore whose metadataColumns slice has some spare capacity
InitSearch ==
    /\ indexes = {}
    /\ extensions = FALSE
    /\ rows = <<>>
    /\ nextUUID = 0
    /\ call = [op |-> "idle"]
    /\ stmts = <<>>
    /\ ret = [err |-> NoError]
    /\ \E spare \in 0..MaxSpare : search = NoSearch(spare)
    /\ chat = <<>>
    /\ loads = NoLoads

Next ==
    \/ DoApplyVectorIndex
    \/ DoDropVectorIndex
    \/ DoReIndex
    \/ DoIsValidIndex
    \/ Return

Spec == Init /\ [][Next]_vars

NextIngest ==
    \/ DoAddDocuments
    \/ DoAddDocumentsEarly
    \/ DoSimilaritySearch
    \/ DoSimilaritySearchEarly
    \/ DoForeignInsert
    \/ Return

SpecIngest == Init /\ [][NextIngest]_vars

NextOptions ==
    \/ DoDistanceStrategy
    \/ DoIndexOptions
    \/ Return

SpecOptions == Init /\ [][NextOptions]_vars

NextSearch ==
    \E p \in Calls :
        \/ SearchBegin(p)
        \/ SearchAppend(p)
        \/ SearchAppendJSON(p)
        \/ SearchJoin(p)
        \/ SearchReturn(p)

SpecSearch == InitSearch /\ [][NextSearch]_vars

NextChat ==
    \/ DoAddMessage
    \/ DoAddMessages
    \/ DoClear
    \/ DoSetMessages
    \/ DoMessages
    \/ Return

SpecChat == Init /\ [][NextChat]_vars

NextEngine ==
    \/ DoNewPostgresEngine
    \/ DoGetUser
    \/ Return

SpecEngine == Init /\ [][NextEngine]_vars

NextLoader ==
    \/ DoNewDocumentLoader
    \/ DoLoad
    \/ Return
    \/ \E p \in Calls :
        \/ LoadBegin(p)
        \/ LoadScan(p)
        \/ LoadProcess(p)
        \/ LoadReturn(p)

SpecLoader == Init /\ [][NextLoader]_vars

(***************************************************************************)
(* Properties.                                                             *)
(***************************************************************************)
Kinds(ss) == {ss[j].kind : j \in 1..Len(ss)}

IndexStmtKinds == {"CREATE INDEX", "DROP INDEX", "REINDEX", "SELECT pg_indexes"}

\* C1 (as stated): DropVectorIndex(name, overwrite=false) sends no DROP
\* statement to the pool and returns an error (OverwriteRequired).
C1_DropRefusedWithError ==
    (call.op = "DropVectorIndex" /\ ~call.overwrite)
        => ("DROP INDEX" \notin Kinds(stmts) /\ ret.err # NoError)

\* C1 (amended): DropVectorIndex(name, overwrite=false) sends no statement
\* at all to the pool, leaves every index as it was and returns no error.
C1_DropWithoutOverwriteIsSilentNoOp ==
    (call.op = "DropVectorIndex" /\ ~call.overwrite)
        => (stmts = <<>> /\ indexes = call.before /\ ret.err = NoError)

C1_Witness ==
    /\ call.op = "DropVectorIndex"
    /\ ~call.overwrite
    /\ call.name = "idx_a"
    /\ "idx_a" \in call.before

\* C2 (as stated): ApplyVectorIndex with indexType exactnearestneighbor sends
\* a DROP INDEX statement and no CREATE INDEX statement, whatever the other
\* arguments are.
C2_ExactAlwaysDrops ==
    (call.op = "ApplyVectorIndex" /\ call.index.indexType = "exactnearestneighbor")
        => ("DROP INDEX" \in Kinds(stmts) /\ "CREATE INDEX" \notin Kinds(stmts))

\* C2 (amended): ApplyVectorIndex with indexType exactnearestneighbor never
\* sends a CREATE INDEX statement; it sends exactly one statement, a DROP
\* INDEX, when overwrite is true and no statement when overwrite is false.
C2_ExactDropsIffOverwrite ==
    (call.op = "ApplyVectorIndex" /\ call.index.indexType = "exactnearestneighbor")
        => /\ "CREATE INDEX" \notin Kinds(stmts)
           /\ call.overwrite => (Len(stmts) = 1 /\ stmts[1].kind = "DROP INDEX")
           /\ ~call.overwrite => stmts = <<>>

C2_Witness ==
    /\ call.op = "ApplyVectorIndex"
    /\ call.index.indexType = "exactnearestneighbor"
    /\ call.overwrite
    /\ call.concurrently
    /\ call.indexOpts # <<>>
    /\ call.before # {}
    /\ indexes = {}

\* C3: with the database answering, IsValidIndex returns no error, and
\* returns true exactly when the index is Present: false before
\* ApplyVectorIndex, true after it, false after DropVectorIndex(overwrite).
C3_IsValidIndexTellsPresence ==
    (call.op = "IsValidIndex" /\ call.failAt # 1)
        => /\ ret.err = NoError
           /\ ret.valid = ((IF call.name = "" THEN DefaultIndexName ELSE call.name)
                              \in indexes)

\* C4: when the embedder returns a number of vectors other than the number
\* of documents, AddDocuments returns an error and inserts no row.
C4_CountMismatchIsAnError ==
    (/\ call.op \in {"AddDocuments", "AddDocumentsEarly"}
     /\ ~call.embedErr
     /\ call.numVectors # Len(call.docs))
        => (ret.err # NoError /\ ~ret.panic /\ rows = call.before)

\* C5: AddDocuments fails whole: with an error it returns no ids, and
\* without one it returns an id for every document.
C5_NoIdsWithAnError ==
    (call.op \in {"AddDocuments", "AddDocumentsEarly"} /\ ~ret.panic)
        => /\ ret.err # NoError => ret.ids = <<>>
           /\ ret.err = NoError => Len(ret.ids) = Len(call.docs)

HelloUS == Document("hello", Map([x \in {"region"} |-> GoString("us")]))

TunableTypes == {"hnsw", "ivfflat", "ivf", "ScaNN"}

\* C7: ApplyVectorIndex of an index type other than exactnearestneighbor, for
\* a name whose index is Present, returns an error and leaves the index
\* Present; when nothing else goes wrong the error wraps the duplicate-object
\* error of the database.
C7_ApplyOnPresentFails ==
    (/\ call.op = "ApplyVectorIndex"
     /\ call.index.indexType # "exactnearestneighbor"
     /\ ApplyIndexName(call.index, call.name) \in call.before)
        => /\ ret.err # NoError
           /\ ApplyIndexName(call.index, call.name) \in indexes
           /\ (call.failAt = 0 /\ call.index.indexType \in TunableTypes)
                 => ret.err = Wrap("failed to execute creation of index",
                                   ErrDuplicate)

C7_Witness ==
    /\ call.op = "ApplyVectorIndex"
    /\ call.index.indexType = "hnsw"
    /\ call.failAt = 0
    /\ ApplyIndexName(call.index, call.name) \in call.before
    /\ ret.err = Wrap("failed to execute creation of index", ErrDuplicate)

IndexOps == {"ApplyVectorIndex", "DropVectorIndex", "ReIndex", "IsValidIndex"}

Addressed(ss) == {ss[j].name : j \in {h \in 1..Len(ss) : ss[h].kind \in IndexStmtKinds}}

Arity(indexType) ==
    CASE indexType = "hnsw" -> 2
      [] indexType \in {"ivfflat", "ivf", "ScaNN"} -> 1
      [] OTHER -> 0

OptionsType(indexType) ==
    CASE indexType = "hnsw"    -> "hnswOptions"
      [] indexType = "ivfflat" -> "ivfflatOptions"
      [] indexType = "ivf"     -> "ivfOptions"
      [] indexType = "ScaNN"   -> "scannOptions"
      [] OTHER -> "none"

\* C9: tuning parameters whose shape does not match the index type make the
\* builder fail: it returns no clause, neither an empty one nor one made of
\* other values.  Of the positional builder, which returns a clause only,
\* this asks at least that the clause is neither empty nor the clause of the
\* default values.
C9_MismatchIsAnError ==
    call.op = "indexOptions"
        => /\ call.options.type # OptionsType(call.indexType)
              => (ret.err # NoError /\ ret.typed = "")
           /\ (Len(call.indexOpts) # 0 /\ Len(call.indexOpts) # Arity(call.indexType))
              => (ret.clause # "" /\ ret.clause # indexOptionsFixed(call.indexType))

FirstOf(ss, kind) ==
    IF kind \in Kinds(ss)
    THEN CHOOSE j \in 1..Len(ss) :
            /\ ss[j].kind = kind
            /\ \A h \in 1..(j - 1) : ss[h].kind # kind
    ELSE 0

\* C11: for a ScaNN index ApplyVectorIndex sends CREATE EXTENSION IF NOT
\* EXISTS first, before any CREATE INDEX statement, and when that step fails
\* it returns the error, sends no CREATE INDEX and creates no index.
C11_ExtensionBeforeCreate ==
    (call.op = "ApplyVectorIndex" /\ call.index.indexType = "ScaNN")
        => /\ Len(stmts) >= 1
           /\ stmts[1] = ExtensionStmt
           /\ "CREATE INDEX" \in Kinds(stmts)
                 => FirstOf(stmts, "CREATE EXTENSION")
                       < FirstOf(stmts, "CREATE INDEX")
           /\ call.failAt = 1
                 => /\ "CREATE INDEX" \notin Kinds(stmts)
                    /\ indexes = call.before
                    /\ ret.err = Wrap("failed to create alloydb scann extension",
                                      ErrConn)

C11_Witness ==
    /\ call.op = "ApplyVectorIndex"
    /\ call.index.indexType = "ScaNN"
    /\ call.failAt = 0
    /\ ret.err = NoError
    /\ Len(stmts) = 3
    /\ stmts[1].kind = "CREATE EXTENSION"
    /\ stmts[2].kind = "CREATE INDEX"
    /\ extensions
    /\ indexes # call.before

\* C11, the failing extension step: nothing after it is sent
C11_WitnessExtensionFails ==
    /\ call.op = "ApplyVectorIndex"
    /\ call.index.indexType = "ScaNN"
    /\ call.failAt = 1
    /\ stmts = <<ExtensionStmt>>
    /\ ret.err # NoError

\* the index a call of DropVectorIndex, ReIndex or IsValidIndex names
NamedIndex == IF call.name = "" THEN DefaultIndexName ELSE call.name

\* C12: with the database answering, DropVectorIndex(name, overwrite=true)
\* returns no error and leaves the index Absent, whether it was Present or
\* Absent, and leaves every other index alone; the same call made once more
\* sends the same statement, returns the same result and leaves the same
\* state.
C12_DropIsIdempotent ==
    (call.op = "DropVectorIndex" /\ call.overwrite /\ call.failAt # 1)
        => /\ ret.err = NoError
           /\ indexes = call.before \ {NamedIndex}
           /\ DropVectorIndex(DB, call.name, TRUE, call.failAt)
                 = [db |-> DB, stmts |-> stmts, err |-> ret.err]

C12_Witness ==
    /\ call.op = "DropVectorIndex"
    /\ call.overwrite
    /\ call.failAt = 0
    /\ NamedIndex \in call.before
    /\ NamedIndex \notin indexes
    /\ indexes # {}

\* C12, from Absent: the index was not there and the call still succeeds
C12_WitnessFromAbsent ==
    /\ call.op = "DropVectorIndex"
    /\ call.overwrite
    /\ call.failAt = 0
    /\ NamedIndex \notin call.before
    /\ ret.err = NoError
    /\ Len(stmts) = 1

SearchOps == {"SimilaritySearch", "SimilaritySearchEarly"}

\* C14: when embedding the query fails, SimilaritySearch returns an error
\* and sends no statement to the pool.
C14_EmbedFailureAborts ==
    (call.op \in SearchOps /\ call.embedErr)
        => (ret.err # NoError /\ stmts = <<>> /\ ~ret.panic)

\* a row that does not decode into a Document: NULL content, metadata JSON
\* that is malformed or is not a byte slice, or a NULL distance
Undecodable(row) ==
    \/ row.cols[vs.contentColumn].t # "string"
    \/ row.cols[vs.metadataJsonColumn].t \notin {"nil", "[]byte"}
    \/ /\ row.cols[vs.metadataJsonColumn].t = "[]byte"
       /\ ~ValidJSON(row.cols[vs.metadataJsonColumn].b)
    \/ NullDistance(row)

\* C15: when one of the rows the query answers with does not decode,
\* SimilaritySearch returns an error and no document, and does not panic.
C15_DecodeFailureFailsClosed ==
    (/\ call.op \in SearchOps
     /\ ~call.embedErr
     /\ call.failAt = 0
     /\ Len(rows) <= vs.k
     /\ \E i \in 1..Len(rows) :
           Passes(rows[i], call.filters) /\ Undecodable(rows[i]))
        => (ret.err # NoError /\ ret.docs = <<>> /\ ~ret.panic)

\* the most documents a call of SimilaritySearch may return: the number the
\* caller asks for when it gives one, the configured k otherwise
Limit == IF call.numDocuments > 0 THEN call.numDocuments ELSE vs.k

\* C16: SimilaritySearch never returns more documents than the configured k
\* or, when the caller asks for a number of documents, than that number.
C16_AtMostLimitDocuments ==
    (call.op \in SearchOps /\ ret.err = NoError /\ ~ret.panic)
        => Len(ret.docs) <= Limit

\* C17: every document SimilaritySearch returns carries as Score the
\* distance computed for its row, as a float32.
C17_ScoreIsDistance ==
    (call.op \in SearchOps /\ ret.err = NoError /\ ~ret.panic)
        => \A p \in 1..Len(ret.docs) :
              ret.docs[p].Score
                 = GoFloat32(Distance(rows[ret.rowIdx[p]], Embed(call.query)))

AddOps == {"AddDocuments", "AddDocumentsEarly"}

\* a document whose residual metadata map is empty: no metadata, or every
\* key of the map is a metadata column
EmptyResidual(doc) ==
    DOMAIN doc.Metadata.kv
        \subseteq {vs.metadataColumns[j] : j \in 1..Len(vs.metadataColumns)}

\* the INSERT binds the value val to the column col
Binds(stmt, col, val) ==
    /\ \E j \in 1..Len(stmt.columns) : stmt.columns[j] = col
    /\ WellFormedInsert(stmt)
    /\ \A j \in 1..Len(stmt.exprs) : stmt.exprs[j].param >= 0
    /\ RowOf(stmt).cols[col] = val

\* C18: with a metadata JSON column configured, the INSERT of a document
\* whose residual metadata map is empty names the JSON column and binds the
\* JSON text "{}" (the object without members) to it.
C18_EmptyResidualIsEmptyObject ==
    (call.op \in AddOps /\ call.jsonColumn # "")
        => \A j \in 1..Len(stmts) :
              EmptyResidual(stmts[j].src)
                 => Binds(stmts[j], call.jsonColumn, GoBytes(<<>>))

\* the columns an INSERT of the store of the call has to name
InsertColumns ==
    <<vs.idColumn, vs.contentColumn, vs.embeddingColumn>>
        \o vs.metadataColumns
        \o (IF call.jsonColumn # "" THEN <<call.jsonColumn>> ELSE <<>>)

\* the value expressions of an INSERT that are not the text NULL
Placeholders(stmt) ==
    LET Test(e) == e # NullExpr IN SelectSeq(stmt.exprs, Test)

\* C19: every INSERT that AddDocuments queues names idColumn, contentColumn,
\* embeddingColumn, the metadata columns in order and then the JSON column
\* when one is configured, has one value expression per named column, and
\* its placeholders are $1, $2, ... in order, one per bound value.
C19_InsertShape ==
    call.op \in AddOps
        => \A j \in 1..Len(stmts) :
              /\ stmts[j].columns = InsertColumns
              /\ stmts[j].sql
                    = "INSERT INTO \"" \o vs.schemaName \o "\".\"" \o vs.tableName
                        \o "\" (" \o Join(InsertColumns, ", ") \o ")VALUES ("
                        \o Join(ExprTexts(stmts[j].exprs), ", ") \o ")"
              /\ Len(stmts[j].exprs) = Len(stmts[j].columns)
              /\ Len(Placeholders(stmts[j])) = Len(stmts[j].values)
              /\ \A k \in 1..Len(Placeholders(stmts[j])) :
                    Placeholders(stmts[j])[k] = Param(k)

\* the ids uuid.New can have produced
UUIDs == {UUID(n) : n \in 1..(MaxUUID + MaxDocs)}

\* id is new: no row that was in the table before the call has it, and no
\* other document of the call got it
NewID(i) ==
    /\ ret.ids[i] \in UUIDs
    /\ \A r \in 1..Len(call.before) :
          call.before[r].cols[vs.idColumn] # GoString(ret.ids[i])
    /\ \A j \in 1..Len(ret.ids) : j # i => ret.ids[j] # ret.ids[i]

\* C20: a successful AddDocuments returns one id per document, in the order
\* of the documents; the id of a document is its metadata["id"] when that is
\* a string and a new UUID otherwise, and it is the value of idColumn in the
\* row inserted for the document.
C20_IdsOnSuccess ==
    (call.op \in AddOps /\ ret.err = NoError /\ ~ret.panic)
        => /\ Len(ret.ids) = Len(call.docs)
           /\ Len(rows) = Len(call.before) + Len(call.docs)
           /\ \A i \in 1..Len(call.docs) :
                 /\ IF HasStringID(call.docs[i])
                    THEN ret.ids[i] = call.docs[i].Metadata.kv["id"].s
                    ELSE NewID(i)
                 /\ i <= Len(ret.ids) /\ Len(call.before) + i <= Len(rows)
                 /\ rows[Len(call.before) + i].src = call.docs[i]
                 /\ rows[Len(call.before) + i].cols[vs.idColumn]
                       = GoString(ret.ids[i])

\* C21: AddDocuments changes nothing but the rows of the table: the documents
\* of the caller, their metadata maps included, are after the call what they
\* were before it, and no row that was in the table is changed.
C21_AddDocumentsKeepsDocuments ==
    call.op \in AddOps
        => /\ ret.docs = call.docs
           /\ Len(rows) >= Len(call.before)
           /\ \A r \in 1..Len(call.before) :
                 r <= Len(rows) /\ rows[r] = call.before[r]

\* C22: operator() and searchFunction() of a distance strategy depend on the
\* variant alone: two calls on the same variant give the same two values,
\* and two calls on different variants give values that differ, for every
\* pair of the three variants.
C22_StrategyConstantsDistinct ==
    (call.op = "distanceStrategy" /\ call.earlier.ds # ""
        /\ call.earlier.rev = call.rev)
        => IF call.earlier.ds = call.ds
           THEN /\ ret.operator = call.earlier.operator
                /\ ret.searchFunction = call.earlier.searchFunction
           ELSE /\ ret.operator # call.earlier.operator
                /\ ret.searchFunction # call.earlier.searchFunction

C22_Witness ==
    /\ call.op = "distanceStrategy"
    /\ call.earlier.rev = call.rev
    /\ call.earlier.ds = "euclidean"
    /\ call.ds = "cosineDistance"
    /\ ret.operator = "<=>"
    /\ call.earlier.operator = "<->"

\* the rows of a session in a table
SessionRows(table, sessionID) ==
    LET Mine(row) == row.session_id = sessionID IN SelectSeq(table, Mine)

Stored(table, sessionID) ==
    [i \in 1..Len(SessionRows(table, sessionID)) |->
        [type    |-> SessionRows(table, sessionID)[i].type,
         content |-> SessionRows(table, sessionID)[i].src]]

\* C27: a Messages call that the pool answers returns the messages stored
\* for the session, each with the content and the type it was stored with,
\* in the order in which they were stored.
C27_MessagesReturnsStored ==
    (call.op = "Messages" /\ ~call.fail)
        => /\ ret.err = NoError
           /\ ret.messages = Stored(chat, call.c.sessionID)

\* C28: SetMessages on a history with the overwrite opt-in is all or
\* nothing: with an error the rows of the session are the ones from before
\* the call, without one the session holds the given messages in order.
C28_SetMessagesAllOrNothing ==
    (call.op = "SetMessages" /\ call.c.overwrite)
        => IF ret.err # NoError
           THEN SessionRows(chat, call.c.sessionID)
                   = SessionRows(call.before, call.c.sessionID)
           ELSE Stored(chat, call.c.sessionID) = call.messages

\* the connection fields of an engine configuration
RequiredFields(rev) ==
    IF rev = "alloydbutil"
    THEN {"projectID", "region", "cluster", "instance"}
    ELSE {"projectID", "region", "instance"}

\* C24 (as stated): with no connection pool supplied, NewPostgresEngine fails
\* with the "missing connection" error whenever some required connection
\* field (project id, region, instance, and cluster where the engine has
\* one) is empty, even if the other fields are set.
C24_MissingFieldIsMissingConnection ==
    (/\ call.op = "NewPostgresEngine"
     /\ ~call.cfg.connPool
     /\ \E f \in RequiredFields(call.rev) : call.cfg[f] = "")
        => ret.err = <<"missing connection: provide a connection pool or connection fields">>

\* the three cases of getUser that look at user and password only
GetUserPlain(c, r) ==
    IF c.user # "" /\ c.password # ""
    THEN r.username = c.user /\ ~r.usingIAMAuth /\ r.err = <<>>
    ELSE IF c.user = "" /\ c.password = ""
    THEN \/ /\ call.retrieved.err = <<>>
            /\ r.username = call.retrieved.email
            /\ r.usingIAMAuth
            /\ r.err = <<>>
         \/ /\ call.retrieved.err # <<>>
            /\ Len(r.err) = 1 + Len(call.retrieved.err)
            /\ SubSeq(r.err, 2, Len(r.err)) = call.retrieved.err
    ELSE r.err = <<"unable to retrieve a valid username">>

\* C26 (as stated): getUser returns the configured user with IAM off when
\* user and password are both non-empty, the retrieved service-account email
\* with IAM on (or an error wrapping the retriever's failure) when both are
\* empty, and "unable to retrieve a valid username" when exactly one is set.
C26_GetUserCases ==
    call.op = "getUser" => GetUserPlain(call.cfg, ret)

\* C26 (amended): the three cases hold when the engine takes no account of
\* a configured IAM account email or none is configured; the alloydbutil
\* getUser, given a configured IAM account email and not both user and
\* password, returns that email with IAM on and no error.
C26_GetUserCasesWithIAMEmail ==
    call.op = "getUser" =>
        IF /\ call.rev = "alloydbutil"
           /\ call.cfg.iamAccountEmail # ""
           /\ ~(call.cfg.user # "" /\ call.cfg.password # "")
        THEN /\ ret.username = call.cfg.iamAccountEmail
             /\ ret.usingIAMAuth
             /\ ret.err = <<>>
        ELSE GetUserPlain(call.cfg, ret)

C26_Witness ==
    /\ call.op = "getUser"
    /\ call.rev = "alloydbutil"
    /\ call.cfg.user # ""
    /\ call.cfg.password = ""
    /\ call.cfg.iamAccountEmail = ""
    /\ ret.err = <<"unable to retrieve a valid username">>

\* C25 (as stated): NewDocumentLoader returns no loader and the error
\* "metadata JSON column '<name>' not found in query result" whenever the
\* metadata JSON column in effect, given by the caller or defaulted to
\* langchain_metadata, is not among the columns of the query result.
C25_MissingJSONColumnIsRefused ==
    (/\ call.op = "NewDocumentLoader"
     /\ ~HasColumn(call.columns,
                   IF call.options.metadataJSONColumn = ""
                   THEN "langchain_metadata"
                   ELSE call.options.metadataJSONColumn))
        => /\ ret.loader = NoLoader
           /\ Len(ret.err) = 2
           /\ ret.err[1] = "metadata JSON column not found in query result"

\* what a document of row k holds when every column is read from that row
RowValue(table, k, name) == table.rows[k][ColumnIndex(table.columns, name)]

DocOfRow(l, table, k, doc) ==
    /\ \A i \in 1..Len(l.contentColumns) :
          doc.PageContent[i] = RowValue(table, k, l.contentColumns[i])
    /\ \A c \in DOMAIN doc.Metadata : doc.Metadata[c] = RowValue(table, k, c)

\* C29 (as stated): in every document Load returns, the value recorded for a
\* column is the value of that column in the row of the document, also when
\* two columns have the same SQL type or a column has a type the loader
\* does not list.
C29_LoadRecordsColumnValues ==
    (call.op = "Load" /\ ret.err = <<>>)
        => \A k \in 1..Len(ret.docs) : DocOfRow(loads.l, loads.table, k, ret.docs[k])

\* C30 (as stated): a Load call that runs at the same time as another one
\* on the same DocumentLoader returns the documents (and the error) it
\* returns when it runs alone against the same table contents.
C30_ConcurrentLoadAsAlone ==
    \A p \in Calls :
        loads.calls[p].pc = "done"
            => LET r == Load(loads.l, loads.table, NewOidProcessor)
               IN  /\ loads.calls[p].docs = r.docs
                   /\ loads.calls[p].err = r.err

====
